---- MODULE Spec2Model ----
(***************************************************************************)
(* Model of the backtesting core of mmvbtrade:                             *)
(*   - Backtest.run             (src/app/strategies/backtest.py)           *)
(*   - Backtest.optimize_strategy                                          *)
(*   - MovingAverageStrategy.__init__ (parameter-domain check)             *)
(*                                                                         *)
(* Python floats are modelled as binary floating point numbers with a      *)
(* Prec-bit significand and round-to-nearest, ties-to-even (IEEE-754       *)
(* semantics with an unbounded exponent), so that rounding of products,    *)
(* quotients and sums is part of the model.  A float is a record           *)
(* [m |-> signed significand, e |-> exponent] of value m * 2^e, with       *)
(* 2^(Prec-1) <= |m| < 2^Prec, or m = 0 and e = 0.                         *)
(*                                                                         *)
(* Candle timestamps are modelled by the candle index (one bar per day).   *)
(***************************************************************************)
EXTENDS Integers, Sequences, FiniteSets, TLC

\* ------------------------------------------------------------------ bounds
Prec == 5          \* significand bits of the modelled float (double: 53)
MaxN == 4          \* longest candle series
MaxR == 2          \* largest get_required_candles_count() of the strategy
MaxFast == 3       \* longest list of fast_period candidates
MaxSlow == 4       \* longest list of slow_period candidates
TablePeriod == 3   \* the run outcomes of the combinations repeat with this period

\* ------------------------------------------------- floating point numbers
RECURSIVE Pow2(_)
Pow2(n) == IF n <= 0 THEN 1 ELSE 2 * Pow2(n - 1)

RECURSIVE BitLen(_)
BitLen(n) == IF n = 0 THEN 0 ELSE 1 + BitLen(n \div 2)

FZero == [m |-> 0, e |-> 0]

\* n * 2^e (n >= 0; sticky: a non-zero remainder lies below n's last bit)
\* rounded to Prec significant bits, ties to even.
RoundMag(n, e, sticky) ==
  IF n = 0 THEN FZero
  ELSE LET k == BitLen(n) - Prec IN
       IF k <= 0 THEN [m |-> n * Pow2(0 - k), e |-> e + k]
       ELSE LET q    == n \div Pow2(k)
                r    == n % Pow2(k)
                half == Pow2(k - 1)
                up   == r > half \/ (r = half /\ (sticky \/ q % 2 = 1))
                q2   == IF up THEN q + 1 ELSE q
            IN IF q2 = Pow2(Prec)
               THEN [m |-> Pow2(Prec - 1), e |-> e + k + 1]
               ELSE [m |-> q2, e |-> e + k]

FNeg(a) == [m |-> 0 - a.m, e |-> a.e]

FRound(n, e, sticky) ==
  IF n < 0 THEN FNeg(RoundMag(0 - n, e, sticky)) ELSE RoundMag(n, e, sticky)

\* float(n) of an integer literal
FInt(n) == FRound(n, 0, FALSE)

FMul(a, b) == FRound(a.m * b.m, a.e + b.e, FALSE)

FAddOrd(hi, lo) ==
  IF hi.e - lo.e > Prec + 2 THEN hi
  ELSE FRound(hi.m * Pow2(hi.e - lo.e) + lo.m, lo.e, FALSE)

FAdd(a, b) ==
  IF a.m = 0 THEN b
  ELSE IF b.m = 0 THEN a
  ELSE IF a.e >= b.e THEN FAddOrd(a, b) ELSE FAddOrd(b, a)

FSub(a, b) == FAdd(a, FNeg(b))

\* a / b for b # 0 (every divisor of the modelled runs is positive)
FDiv(a, b) ==
  LET am  == IF a.m < 0 THEN 0 - a.m ELSE a.m
      bm  == IF b.m < 0 THEN 0 - b.m ELSE b.m
      num == am * Pow2(Prec + 1)
      mag == RoundMag(num \div bm, a.e - b.e - (Prec + 1), num % bm # 0)
  IN IF (a.m < 0) # (b.m < 0) THEN FNeg(mag) ELSE mag

FGt(a, b) == FSub(a, b).m > 0
FLt(a, b) == FSub(a, b).m < 0

FOne == FInt(1)
FHundred == FInt(100)

\* ------------------------------------------------------ inputs of a run
NoTime == 0 - 1                      \* entry_time = None
NoResult == [none |-> TRUE]          \* run has not returned
EmptyDict == [x \in {} |-> 0]        \* {}
Last(seq) == seq[Len(seq)]

\* close prices of the candles, all > 0
Prices == {FInt(8), FInt(11)}
Capitals == {FInt(12)}
\* commission_pct < 1 and 0 <= slippage_pct < 1
Commissions == {FZero, [m |-> Pow2(Prec - 1), e |-> 0 - (Prec + 2)]}   \* 0, 1/8
Slippages == {FZero, [m |-> Pow2(Prec - 1), e |-> 0 - (Prec + 1)]}     \* 0, 1/4
\* values strategy.analyze may return
Signals == {0 - 1, 0, 1}

CandleSeries == UNION {[1..n -> Prices] : n \in 0..MaxN}

VARIABLES
  pc,               \* "start" | "loop" | "done" | "error": position in run()
  candles,          \* sequence of close prices, candles[k+1] = float(candles[k]['c'])
  required,         \* strategy.get_required_candles_count()
  initial_capital, commission_pct, slippage_pct,
  i,                \* loop index of run() (0-based candle index)
  equity, cash, position, position_size, entry_price, entry_time,
  trades,           \* self.trades
  dates, equity_values, cash_values, position_values,
  equity_curve,     \* self.equity_curve: <<>> (None) or <<record of columns>>
  signal,           \* signal returned by the latest analyze call
  hist_indices,     \* candle indices of the history passed to the latest analyze call
  analyze_calls,    \* number of calls of strategy.analyze
  result            \* value returned by run()

runvars == <<pc, candles, required, initial_capital, commission_pct, slippage_pct,
             i, equity, cash, position, position_size, entry_price, entry_time,
             trades, dates, equity_values, cash_values, position_values,
             equity_curve, signal, hist_indices, analyze_calls, result>>

VARIABLES
  opc,              \* "idle" | "start" | "search" | "returned" | "raised": position in optimize_strategy()
  param_ranges,     \* sequence of [name, values]: the dict in insertion order
  target_metric,
  runtable,         \* outcomes of bt.run(candles), by enumeration index modulo TablePeriod
  combo_idx,        \* i of enumerate(product(...)): combinations evaluated so far
  best_params, best_value, all_results,
  template,         \* parameters of self.strategy, the engine's own strategy
  runs,             \* number of bt.run calls
  opt_result        \* value returned by optimize_strategy()

optvars == <<opc, param_ranges, target_metric, runtable, combo_idx,
             best_params, best_value, all_results, template, runs, opt_result>>

VARIABLES
  strategy,         \* the strategy object: its class ("kind") and attributes
  ticks,            \* close prices as exact integers (price units of the series), read by the strategy
  spc,              \* "idle" | "new" | "ready" | "raised" | "analyzed": position of a strategy API call
  ctor_args,        \* class and keyword arguments of the requested construction
  analysis          \* the tuple (signal, metadata) returned by the latest analyze call

stratvars == <<strategy, ticks, spc, ctor_args, analysis>>

VARIABLES
  mpc,              \* "idle" | "call" | "returned": position of a PerformanceMetrics.calculate_metrics call
  pm_curve,         \* its equity_curve argument: [date, equity] rows
  pm_trades,        \* its trades argument
  pm_metrics        \* the dict it returns

pmvars == <<mpc, pm_curve, pm_trades, pm_metrics>>

VARIABLES
  rpc,              \* "idle" | "new" | "tracking": life of a RiskManager object
  rm,               \* the RiskManager's tracking attributes
  last_value,       \* portfolio value of the latest tracking call
  rm_calls,         \* number of tracking calls made
  can_open          \* the dict returned by the latest can_open_position call

riskvars == <<rpc, rm, last_value, rm_calls, can_open>>

VARIABLES
  fpc,              \* "idle" | "call" | "returned": position of a StrategyFactory.create_strategy call
  strategy_id, risk_params, kwargs,
  created           \* the value create_strategy returns

factvars == <<fpc, strategy_id, risk_params, kwargs, created>>

VARIABLES
  run_calls         \* number of run() calls made on the engine, the one in progress included

extvars == <<pmvars, riskvars, factvars, run_calls>>

vars == <<runvars, optvars, stratvars, extvars>>

None == [none |-> TRUE]

\* a strategy of which only the interface is known (any Strategy subclass)
AbstractStrategy == [kind |-> "Strategy"]

PMIdle == mpc = "idle" /\ pm_curve = <<>> /\ pm_trades = <<>> /\ pm_metrics = None
RiskIdle == rpc = "idle" /\ rm = None /\ last_value = None /\ rm_calls = 0 /\ can_open = None
FactIdle ==
  /\ fpc = "idle" /\ strategy_id = "" /\ risk_params = None
  /\ kwargs = EmptyDict /\ created = None

StratIdle ==
  /\ strategy = AbstractStrategy /\ ticks = <<>> /\ spc = "idle"
  /\ ctor_args = EmptyDict /\ analysis = None

OptIdle ==
  /\ opc = "idle" /\ param_ranges = <<>> /\ target_metric = "sharpe_ratio"
  /\ runtable = <<>> /\ combo_idx = 0 /\ best_params = EmptyDict /\ best_value = 0
  /\ all_results = <<>> /\ template = EmptyDict /\ runs = 0 /\ opt_result = NoResult

\* the state of the engine's run() variables, as a predicate
RunInit(p) ==
  /\ pc = p
  /\ i = 0
  /\ equity = FZero /\ cash = FZero /\ position = FZero
  /\ position_size = FZero /\ entry_price = FZero /\ entry_time = NoTime
  /\ trades = <<>>
  /\ dates = <<>> /\ equity_values = <<>> /\ cash_values = <<>> /\ position_values = <<>>
  /\ equity_curve = <<>>
  /\ signal = 0
  /\ hist_indices = {}
  /\ analyze_calls = 0
  /\ result = NoResult

\* Backtest.__init__ followed by the caller's choice of candles
Init ==
  /\ OptIdle
  /\ StratIdle
  /\ PMIdle /\ RiskIdle /\ FactIdle /\ run_calls = 1
  /\ pc = "start"
  /\ candles \in CandleSeries
  /\ required \in 0..MaxR
  /\ initial_capital \in Capitals
  /\ commission_pct \in Commissions
  /\ slippage_pct \in Slippages
  /\ i = 0
  /\ equity = FZero /\ cash = FZero /\ position = FZero
  /\ position_size = FZero /\ entry_price = FZero /\ entry_time = NoTime
  /\ trades = <<>>
  /\ dates = <<>> /\ equity_values = <<>> /\ cash_values = <<>> /\ position_values = <<>>
  /\ equity_curve = <<>>
  /\ signal = 0
  /\ hist_indices = {}
  /\ analyze_calls = 0
  /\ result = NoResult

\* candles[k] for a 0-based index k
Close(k) == candles[k + 1]

\* a history that ends with the evaluated bar itself
HistoryIndicesInclusive(k) == 0..k

\* a history that reaches one candle past the evaluated bar
HistoryIndicesLookahead(k) == 0..(k + 1)

\* historical_candles = candles[:k]: the indices of the candles handed to analyze
HistoryIndices(k) == 0..(k - 1)

\* length checks that are off by one in either direction
NotEnoughCandlesInclusive == Len(candles) <= required
NotEnoughCandlesLate == Len(candles) < required - 1

\* the length check at the head of run()
NotEnoughCandles == Len(candles) < required

ErrorResult == [error |-> "Not enough candles for backtest"]

\* run(): not enough candles, return the error result
RunReject ==
  /\ UNCHANGED optvars
  /\ UNCHANGED stratvars
  /\ UNCHANGED extvars
  /\ pc = "start"
  /\ NotEnoughCandles
  /\ result' = ErrorResult
  /\ pc' = "error"
  /\ UNCHANGED <<candles, required, initial_capital, commission_pct, slippage_pct,
                 i, equity, cash, position, position_size, entry_price, entry_time,
                 trades, dates, equity_values, cash_values, position_values,
                 equity_curve, signal, hist_indices, analyze_calls>>

\* a reset that keeps the ledger of the earlier run
ResetTradesKeep == trades

\* "Reset state": self.trades = []
ResetTrades == <<>>

\* run(): reset the state and enter the loop
RunStart ==
  /\ UNCHANGED optvars
  /\ UNCHANGED stratvars
  /\ UNCHANGED extvars
  /\ pc = "start"
  /\ ~NotEnoughCandles
  /\ trades' = ResetTrades
  /\ equity' = initial_capital
  /\ cash' = initial_capital
  /\ position' = FZero
  /\ position_size' = FZero
  /\ entry_price' = FZero
  /\ entry_time' = NoTime
  /\ dates' = <<>> /\ equity_values' = <<>> /\ cash_values' = <<>> /\ position_values' = <<>>
  /\ i' = required
  /\ pc' = "loop"
  /\ UNCHANGED <<candles, required, initial_capital, commission_pct, slippage_pct,
                 equity_curve, signal, hist_indices, analyze_calls, result>>

\* ------------------------------------------------------------ strategies
\* Indicator values are exact rationals [n, d] with d > 0 over the integer
\* closes `ticks`; NaN is the value of a rolling window that is not full and
\* of 0/0.  Comparisons with NaN are false, as in pandas.  The rounding of
\* the float indicators is not modelled: it matters only where two
\* indicators are equal in exact arithmetic.
NaN == [n |-> 0, d |-> 0]
IsNaN(a) == a.d = 0
RInt(k) == [n |-> k, d |-> 1]
RGt(a, b) == ~IsNaN(a) /\ ~IsNaN(b) /\ a.n * b.d > b.n * a.d
RLt(a, b) == ~IsNaN(a) /\ ~IsNaN(b) /\ a.n * b.d < b.n * a.d
RGe(a, b) == ~IsNaN(a) /\ ~IsNaN(b) /\ a.n * b.d >= b.n * a.d
RLe(a, b) == ~IsNaN(a) /\ ~IsNaN(b) /\ a.n * b.d <= b.n * a.d

RsiWindow == 14
RequiredExtraMA == 30
RequiredExtraMR == 10

RECURSIVE SumRange(_, _, _)
SumRange(h, a, b) == IF a > b THEN 0 ELSE h[b] + SumRange(h, a, b - 1)

\* df['close'].rolling(window=w).mean() at row t (1-based)
RollingMean(h, t, w) ==
  IF w >= 1 /\ t >= w /\ t <= Len(h) THEN [n |-> SumRange(h, t - w + 1, t), d |-> w] ELSE NaN

\* ((fast_ma - slow_ma) / slow_ma) * 100
MaDiffPct(fast, slow) ==
  IF IsNaN(fast) \/ IsNaN(slow) \/ slow.n = 0 THEN NaN
  ELSE [n |-> (fast.n * slow.d - slow.n * fast.d) * 100, d |-> slow.n * fast.d]

RECURSIVE GainSum(_, _, _)
GainSum(h, a, b) ==
  IF a > b THEN 0
  ELSE (IF h[b] - h[b - 1] > 0 THEN h[b] - h[b - 1] ELSE 0) + GainSum(h, a, b - 1)

RECURSIVE LossSum(_, _, _)
LossSum(h, a, b) ==
  IF a > b THEN 0
  ELSE (IF h[b] - h[b - 1] < 0 THEN h[b - 1] - h[b] ELSE 0) + LossSum(h, a, b - 1)

\* 100 - 100 / (1 + avg_gain / avg_loss) over the w latest price changes at
\* row t; the change of the first row is NaN, avg_loss = 0 gives rs = inf
\* (RSI 100) or rs = NaN
Rsi(h, t, w) ==
  IF w < 1 \/ t < w + 1 \/ t > Len(h) THEN NaN
  ELSE LET g == GainSum(h, t - w + 1, t)
           l == LossSum(h, t - w + 1, t)
       IN IF l = 0 THEN (IF g = 0 THEN NaN ELSE RInt(100))
          ELSE [n |-> 100 * g, d |-> g + l]

\* a trend rule: buy whenever the fast average is above the slow one
MABuyConditionTrend(st, h, t) ==
  RGt(RollingMean(h, t, st.fast_period), RollingMean(h, t, st.slow_period))

\* a crossover test that misses the case of equal averages on the previous bar
MABuyConditionStrict(st, h, t) ==
  LET fast      == RollingMean(h, t, st.fast_period)
      slow      == RollingMean(h, t, st.slow_period)
      prev_fast == RollingMean(h, t - 1, st.fast_period)
      prev_slow == RollingMean(h, t - 1, st.slow_period)
  IN /\ RGt(fast, slow) /\ RLt(prev_fast, prev_slow)
     /\ (st.signal_threshold > 0 => RGt(MaDiffPct(fast, slow), RInt(st.signal_threshold)))
     /\ RLt(Rsi(h, t, RsiWindow), RInt(st.overbought_level))

\* generate_signals(): buy_condition at row t
MABuyCondition(st, h, t) ==
  LET fast      == RollingMean(h, t, st.fast_period)
      slow      == RollingMean(h, t, st.slow_period)
      prev_fast == RollingMean(h, t - 1, st.fast_period)
      prev_slow == RollingMean(h, t - 1, st.slow_period)
  IN /\ RGt(fast, slow) /\ RLe(prev_fast, prev_slow)
     /\ (st.signal_threshold > 0 => RGt(MaDiffPct(fast, slow), RInt(st.signal_threshold)))
     /\ RLt(Rsi(h, t, RsiWindow), RInt(st.overbought_level))

\* generate_signals(): sell_condition at row t
MASellCondition(st, h, t) ==
  LET fast      == RollingMean(h, t, st.fast_period)
      slow      == RollingMean(h, t, st.slow_period)
      prev_fast == RollingMean(h, t - 1, st.fast_period)
      prev_slow == RollingMean(h, t - 1, st.slow_period)
  IN /\ RLt(fast, slow) /\ RGe(prev_fast, prev_slow)
     /\ (st.signal_threshold > 0 => RLt(MaDiffPct(fast, slow), RInt(0 - st.signal_threshold)))
     /\ RGt(Rsi(h, t, RsiWindow), RInt(st.oversold_level))

\* generate_signals(): the signal column at row t: 0, then 1 where
\* buy_condition, then -1 where sell_condition
MASignal(st, h, t) ==
  LET s1 == IF MABuyCondition(st, h, t) THEN 1 ELSE 0
  IN IF MASellCondition(st, h, t) THEN 0 - 1 ELSE s1

MARequired(st) == st.slow_period + RequiredExtraMA

\* a guard that also turns away a history of exactly the required length
MATooShortInclusive(st, h) == Len(h) <= MARequired(st)

MATooShort(st, h) == Len(h) < MARequired(st)

\* MovingAverageStrategy.analyze
MAAnalyze(st, h) ==
  IF MATooShort(st, h) THEN [signal |-> 0, metadata |-> None]
  ELSE LET t == Len(h) IN
       IF MASignal(st, h, t) # 0
       THEN [signal |-> MASignal(st, h, t),
             metadata |-> [timestamp |-> t - 1, price |-> h[t],
                           fast_ma |-> RollingMean(h, t, st.fast_period),
                           slow_ma |-> RollingMean(h, t, st.slow_period),
                           rsi |-> Rsi(h, t, RsiWindow)]]
       ELSE [signal |-> 0, metadata |-> None]

\* n^2 (n-1) times the rolling variance (ddof 1) of the window of n rows at t
ScaledVariance(h, t, n) ==
  LET S == SumRange(h, t - n + 1, t)
      sq[j \in (t - n)..t] ==
        IF j = t - n THEN 0 ELSE sq[j - 1] + (n * h[j] - S) * (n * h[j] - S)
  IN sq[t]

\* close < ma - std_dev * std at row t (false when ma or std is NaN)
BelowLowerBand(st, h, t) ==
  LET n == st.lookback_period
      S == SumRange(h, t - n + 1, t)
  IN /\ n >= 2 /\ t >= n /\ t <= Len(h)
     /\ S - n * h[t] > 0
     /\ (S - n * h[t]) * (S - n * h[t]) * (n - 1)
          > st.std_dev * st.std_dev * ScaledVariance(h, t, n)

\* close > ma + std_dev * std at row t
AboveUpperBand(st, h, t) ==
  LET n == st.lookback_period
      S == SumRange(h, t - n + 1, t)
  IN /\ n >= 2 /\ t >= n /\ t <= Len(h)
     /\ n * h[t] - S > 0
     /\ (n * h[t] - S) * (n * h[t] - S) * (n - 1)
          > st.std_dev * st.std_dev * ScaledVariance(h, t, n)

MRSignal(st, h, t) ==
  LET s1 == IF BelowLowerBand(st, h, t)
               /\ RLt(Rsi(h, t, st.rsi_period), RInt(st.oversold_threshold))
            THEN 1 ELSE 0
  IN IF AboveUpperBand(st, h, t)
        /\ RGt(Rsi(h, t, st.rsi_period), RInt(st.overbought_threshold))
     THEN 0 - 1 ELSE s1

MRRequired(st) ==
  (IF st.lookback_period >= st.rsi_period THEN st.lookback_period ELSE st.rsi_period)
    + RequiredExtraMR

MRTooShort(st, h) == Len(h) < MRRequired(st)

\* MeanReversionStrategy.analyze
MRAnalyze(st, h) ==
  IF MRTooShort(st, h) THEN [signal |-> 0, metadata |-> None]
  ELSE LET t == Len(h) IN
       IF MRSignal(st, h, t) # 0
       THEN [signal |-> MRSignal(st, h, t),
             metadata |-> [timestamp |-> t - 1, price |-> h[t],
                           ma |-> RollingMean(h, t, st.lookback_period),
                           rsi |-> Rsi(h, t, st.rsi_period)]]
       ELSE [signal |-> 0, metadata |-> None]

\* strategy.analyze(h) of a concrete strategy
Analyze(st, h) ==
  IF st.kind = "MovingAverageStrategy" THEN MAAnalyze(st, h) ELSE MRAnalyze(st, h)

\* strategy.get_required_candles_count() of a concrete strategy
RequiredCount(st) ==
  IF st.kind = "MovingAverageStrategy" THEN MARequired(st) ELSE MRRequired(st)

\* historical_candles = candles[:k] as the strategy reads it
History(k) == SubSeq(ticks, 1, k)

\* the tuples strategy.analyze(historical_candles) can return at bar k: any
\* signal for a strategy of which only the interface is known
AnalyzeResults(k) ==
  IF strategy.kind = "Strategy"
  THEN {[signal |-> sig, metadata |-> None] : sig \in Signals}
  ELSE {Analyze(strategy, History(k))}

BuyPrice(price) == FMul(price, FAdd(FOne, slippage_pct))
SellPrice(price) == FMul(price, FSub(FOne, slippage_pct))

\* the integer part of a float a >= 0
FFloorPos(a) == IF a.e >= 0 THEN a ELSE FInt(a.m \div Pow2(0 - a.e))

\* a quantity restricted to whole units
BuyQuantityWhole(size, buy_price) ==
  FFloorPos(FDiv(FSub(size, FMul(size, commission_pct)), buy_price))

\* number of units bought with the cash `size`
BuyQuantity(size, buy_price) ==
  FDiv(FSub(size, FMul(size, commission_pct)), buy_price)

BuyTrade(time, size, buy_price) ==
  [type |-> "buy", time |-> time, price |-> buy_price,
   quantity |-> BuyQuantity(size, buy_price),
   value |-> size, commission |-> FMul(size, commission_pct)]

\* the sell record of the loop and of the forced close
\* a sell whose cost basis leaves out the commission paid on the buy
SellTradeNetBasis(time, qty, size, sell_price, entered) ==
  LET sell_value == FMul(qty, sell_price)
      net        == FMul(size, FSub(FOne, commission_pct))
  IN
  [type |-> "sell", time |-> time, price |-> sell_price,
   quantity |-> qty, value |-> sell_value,
   commission |-> FMul(sell_value, commission_pct),
   profit_loss |-> FSub(sell_value, net),
   profit_loss_pct |-> FMul(FSub(FDiv(sell_value, net), FOne), FHundred),
   holding_period |-> time - entered]

SellTrade(time, qty, size, sell_price, entered) ==
  LET sell_value == FMul(qty, sell_price) IN
  [type |-> "sell", time |-> time, price |-> sell_price,
   quantity |-> qty, value |-> sell_value,
   commission |-> FMul(sell_value, commission_pct),
   profit_loss |-> FSub(sell_value, size),
   profit_loss_pct |-> FMul(FSub(FDiv(sell_value, size), FOne), FHundred),
   holding_period |-> time - entered]

\* cash after a sell of qty units at sell_price
CashAfterSell(c, qty, sell_price) ==
  LET sell_value == FMul(qty, sell_price) IN
  FAdd(c, FSub(sell_value, FMul(sell_value, commission_pct)))

\* a buy that does not look at the open position
BuyConditionAlways(sig) == sig = 1

BuyCondition(sig) == sig = 1 /\ position = FZero
SellCondition(sig) == sig = 0 - 1 /\ FGt(position, FZero)

\* an equity point taken from the state the bar's trade has left
PointStateAfterTrade(before, after) == after

\* the state the equity point of a bar is computed from: the point is
\* appended between analyze() and the trade, so it is the state the
\* previous bar has left
PointState(before, after) == before

\* position_value = position * current_price; equity = cash + position_value
EquityPoint(st, current_price) ==
  [equity |-> FAdd(st.cash, FMul(st.position, current_price)),
   cash |-> st.cash,
   position |-> FMul(st.position, current_price)]

\* one iteration of the loop over the candles
Bar ==
  /\ UNCHANGED optvars
  /\ pc = "loop"
  /\ i < Len(candles)
  /\ UNCHANGED <<strategy, ticks, spc, ctor_args>>
  /\ UNCHANGED extvars
  /\ \E res \in AnalyzeResults(i) :
       LET sig            == res.signal
           current_price  == Close(i)
           before         == [cash |-> cash, position |-> position]
           after          == IF BuyCondition(sig)
                             THEN [cash |-> FZero,
                                   position |-> BuyQuantity(cash, BuyPrice(current_price))]
                             ELSE IF SellCondition(sig)
                             THEN [cash |-> CashAfterSell(cash, position,
                                                          SellPrice(current_price)),
                                   position |-> FZero]
                             ELSE before
           point          == EquityPoint(PointState(before, after), current_price)
           position_value == point.position
           eq             == point.equity
       IN
       /\ signal' = sig
       /\ analysis' = res
       /\ hist_indices' = HistoryIndices(i)
       /\ analyze_calls' = analyze_calls + 1
       /\ equity' = eq
       /\ dates' = Append(dates, i)
       /\ equity_values' = Append(equity_values, eq)
       /\ cash_values' = Append(cash_values, point.cash)
       /\ position_values' = Append(position_values, position_value)
       /\ IF BuyCondition(sig)
          THEN /\ position_size' = cash
               /\ position' = BuyQuantity(cash, BuyPrice(current_price))
               /\ cash' = FZero
               /\ entry_price' = BuyPrice(current_price)
               /\ entry_time' = i
               /\ trades' = Append(trades, BuyTrade(i, cash, BuyPrice(current_price)))
          ELSE IF SellCondition(sig)
          THEN /\ cash' = CashAfterSell(cash, position, SellPrice(current_price))
               /\ trades' = Append(trades, SellTrade(i, position, position_size,
                                                      SellPrice(current_price), entry_time))
               /\ position' = FZero
               /\ position_size' = FZero
               /\ entry_price' = FZero
               /\ entry_time' = NoTime
          ELSE UNCHANGED <<cash, position, position_size, entry_price, entry_time, trades>>
  /\ i' = i + 1
  /\ UNCHANGED <<pc, candles, required, initial_capital, commission_pct, slippage_pct,
                 equity_curve, result>>

\* a run that leaves the last position open
OpenAtEndNever == FALSE

\* "Close any open position at the end"
OpenAtEnd == FGt(position, FZero)

\* float('inf')
FInf == [inf |-> TRUE]

FAbs(a) == IF a.m < 0 THEN FNeg(a) ELSE a

\* t.get('profit_loss', 0)
ProfitLossOf(t) == IF "profit_loss" \in DOMAIN t THEN t.profit_loss ELSE FZero

\* sum([t.get('profit_loss', 0) for t in trades if t.get('profit_loss', 0) > 0])
RECURSIVE TotalProfit(_)
TotalProfit(ledger) ==
  IF ledger = <<>> THEN FZero
  ELSE LET init == TotalProfit(SubSeq(ledger, 1, Len(ledger) - 1))
           pl   == ProfitLossOf(Last(ledger))
       IN IF FGt(pl, FZero) THEN FAdd(init, pl) ELSE init

\* abs(sum([t.get('profit_loss', 0) for t in trades if t.get('profit_loss', 0) < 0]))
RECURSIVE SumLosses(_)
SumLosses(ledger) ==
  IF ledger = <<>> THEN FZero
  ELSE LET init == SumLosses(SubSeq(ledger, 1, Len(ledger) - 1))
           pl   == ProfitLossOf(Last(ledger))
       IN IF FLt(pl, FZero) THEN FAdd(init, pl) ELSE init

TotalLoss(ledger) == FAbs(SumLosses(ledger))

\* total_profit / total_loss if total_loss > 0 else float('inf')
ProfitFactor(ledger) ==
  IF FGt(TotalLoss(ledger), FZero)
  THEN FDiv(TotalProfit(ledger), TotalLoss(ledger))
  ELSE FInf

\* calculate_performance_metrics(): {} for an empty curve, else the metrics
\* (total_return, and profit_factor when there are trades, are the ones
\* modelled here)
Metrics(curve, ledger) ==
  IF Len(curve.equity) = 0 THEN EmptyDict
  ELSE LET total_return ==
             FMul(FSub(FDiv(curve.equity[Len(curve.equity)], curve.equity[1]), FOne), FHundred)
       IN IF Len(ledger) > 0
          THEN [total_return |-> total_return, profit_factor |-> ProfitFactor(ledger)]
          ELSE [total_return |-> total_return]

\* self.strategy.get_strategy_info().get('parameters', {})
Parameters(st) == [nm \in DOMAIN st \ {"kind"} |-> st[nm]]

\* a result whose final equity is the cash left after the forced close
SuccessResultFinalCash(eq, ledger, curve) ==
  LET final == IF OpenAtEnd
               THEN CashAfterSell(cash, position, SellPrice(Close(Len(candles) - 1)))
               ELSE eq
  IN
  [strategy |-> strategy.kind,
   parameters |-> Parameters(strategy),
   initial_capital |-> initial_capital,
   final_equity |-> final,
   total_return |-> FMul(FSub(FDiv(final, initial_capital), FOne), FHundred),
   metrics |-> Metrics(curve, ledger),
   trades_count |-> Len(ledger),
   trades |-> ledger]

\* the results dict of a completed run
SuccessResult(eq, ledger, curve) ==
  [strategy |-> strategy.kind,
   parameters |-> Parameters(strategy),
   initial_capital |-> initial_capital,
   final_equity |-> eq,
   total_return |-> FMul(FSub(FDiv(eq, initial_capital), FOne), FHundred),
   metrics |-> Metrics(curve, ledger),
   trades_count |-> Len(ledger),
   trades |-> ledger]

\* BacktestRunner._save_results(results): the files written for a result
SavedFiles(res) ==
  {"results.json"}
    \cup (IF "equity_curve" \in DOMAIN res /\ res.equity_curve # None
          THEN {"equity_curve.csv"} ELSE {})
    \cup (IF "trades" \in DOMAIN res /\ res.trades # <<>>
          THEN {"trades.csv"} ELSE {})

\* run() after the loop: forced close, equity curve, metrics, result
RunFinish ==
  /\ UNCHANGED optvars
  /\ UNCHANGED stratvars
  /\ UNCHANGED extvars
  /\ pc = "loop"
  /\ i >= Len(candles)
  /\ LET last   == Close(Len(candles) - 1)
         ledger == IF OpenAtEnd
                   THEN Append(trades, SellTrade(dates[Len(dates)], position, position_size,
                                                 SellPrice(last), entry_time))
                   ELSE trades
         curve  == [date |-> dates, equity |-> equity_values,
                    cash |-> cash_values, position |-> position_values]
     IN
     /\ trades' = ledger
     /\ cash' = IF OpenAtEnd THEN CashAfterSell(cash, position, SellPrice(last)) ELSE cash
     /\ position' = IF OpenAtEnd THEN FZero ELSE position
     /\ equity_curve' = <<curve>>
     /\ result' = SuccessResult(equity, ledger, curve)
  /\ pc' = "done"
  /\ UNCHANGED <<candles, required, initial_capital, commission_pct, slippage_pct,
                 i, equity, position_size, entry_price, entry_time,
                 dates, equity_values, cash_values, position_values,
                 signal, hist_indices, analyze_calls>>

Next == RunReject \/ RunStart \/ Bar \/ RunFinish

Spec == Init /\ [][Next]_vars

\* ------------------------------------- several run() calls on one engine
MaxRuns == 2

\* the candles of the calls: too short for a positive required count, or two bars
RerunSeries == {<<>>, <<FInt(8), FInt(11)>>}

InitRerun ==
  /\ OptIdle
  /\ StratIdle
  /\ PMIdle /\ RiskIdle /\ FactIdle /\ run_calls = 1
  /\ RunInit("start")
  /\ candles \in RerunSeries
  /\ required \in 0..MaxR
  /\ initial_capital \in Capitals
  /\ commission_pct \in Commissions
  /\ slippage_pct = FZero

\* the caller calls run() again on the same engine: the locals of the
\* earlier call are gone, self.trades and self.equity_curve are kept
RunAgain ==
  /\ UNCHANGED optvars
  /\ UNCHANGED stratvars
  /\ UNCHANGED <<pmvars, riskvars, factvars>>
  /\ pc \in {"done", "error"}
  /\ run_calls < MaxRuns
  /\ run_calls' = run_calls + 1
  /\ candles' \in RerunSeries
  /\ pc' = "start"
  /\ i' = 0
  /\ equity' = FZero /\ cash' = FZero /\ position' = FZero
  /\ position_size' = FZero /\ entry_price' = FZero /\ entry_time' = NoTime
  /\ dates' = <<>> /\ equity_values' = <<>> /\ cash_values' = <<>> /\ position_values' = <<>>
  /\ signal' = 0
  /\ hist_indices' = {}
  /\ analyze_calls' = 0
  /\ result' = NoResult
  /\ UNCHANGED <<required, initial_capital, commission_pct, slippage_pct,
                 trades, equity_curve>>

NextRerun == RunReject \/ RunStart \/ Bar \/ RunFinish \/ RunAgain

SpecRerun == InitRerun /\ [][NextRerun]_vars

\* ------------------------------------------------------------ optimizer
DefaultFastPeriod == 10
DefaultSlowPeriod == 30
TopResults == 10
NegInf == 0 - 1000                   \* -float('inf'): below every metric value

\* candidate lists of the grid
FastAscending(n) == [j \in 1..n |-> 5 * j]
FastWithInvalid(n) == [j \in 1..n |-> IF j = 2 THEN 40 ELSE 5 * j]
SlowAscending(n) == [j \in 1..n |-> 30 + 10 * (j - 1)]

FastLists == {FastAscending(n) : n \in 0..MaxFast} \cup {FastWithInvalid(n) : n \in 2..MaxFast}
SlowLists == {SlowAscending(n) : n \in 1..MaxSlow}

\* param_ranges: {} | {fast_period: [...]} | {fast_period: [...], slow_period: [...]}
Grids ==
  {<<>>}
  \cup {<<[name |-> "fast_period", values |-> f]>> : f \in FastLists}
  \cup {<<[name |-> "fast_period", values |-> f], [name |-> "slow_period", values |-> sl]>> :
          f \in FastLists, sl \in SlowLists}

Targets == {"sharpe_ratio", "total_return", "trades_count"}

\* results bt.run(candles) can return: the error result, a result of a run
\* without evaluated bars (empty metrics), results with metrics.  Metric
\* values are numbers that the optimizer only compares.
RunOutcomes ==
  {ErrorResult,
   [metrics |-> EmptyDict, total_return |-> 0, trades_count |-> 0],
   [metrics |-> [sharpe_ratio |-> 1, total_return |-> 5], total_return |-> 5, trades_count |-> 2],
   [metrics |-> [sharpe_ratio |-> 0 - 1, total_return |-> 0 - 5], total_return |-> 0 - 5,
    trades_count |-> 6]}

DefaultTemplate == [fast_period |-> DefaultFastPeriod, slow_period |-> DefaultSlowPeriod]

\* the engine's own strategy: MovingAverageStrategy() or
\* MovingAverageStrategy(fast_period=3, slow_period=7)
Templates == {DefaultTemplate, [fast_period |-> 3, slow_period |-> 7]}

InitOpt ==
  /\ RunInit("idle")
  /\ StratIdle
  /\ PMIdle /\ RiskIdle /\ FactIdle /\ run_calls = 0
  /\ candles = <<>> /\ required = 0
  /\ initial_capital = FZero /\ commission_pct = FZero /\ slippage_pct = FZero
  /\ opc = "start"
  /\ param_ranges \in Grids
  /\ target_metric \in Targets
  /\ runtable \in [1..TablePeriod -> RunOutcomes]
  /\ combo_idx = 0
  /\ best_params = EmptyDict /\ best_value = 0
  /\ all_results = <<>>
  /\ template \in Templates
  /\ runs = 0
  /\ opt_result = NoResult

\* itertools.product(*lists): the first list varies slowest
RECURSIVE Product(_)
Product(lists) ==
  IF lists = <<>> THEN << <<>> >>
  ELSE LET rest == Product(Tail(lists))
           hd   == Head(lists)
           n    == Len(rest)
       IN [j \in 1..(Len(hd) * n) |-> <<hd[((j - 1) \div n) + 1]>> \o rest[((j - 1) % n) + 1]]

param_names == [j \in 1..Len(param_ranges) |-> param_ranges[j].name]
param_values == [j \in 1..Len(param_ranges) |-> param_ranges[j].values]
Combinations == Product(param_values)

\* dict(zip(param_names, combination))
ParamsOf(combination) ==
  [nm \in {param_names[j] : j \in 1..Len(param_names)} |->
     combination[CHOOSE j \in 1..Len(param_names) : param_names[j] = nm]]

\* MovingAverageStrategy(**params): the arguments after defaults
FastOf(params) ==
  IF "fast_period" \in DOMAIN params THEN params["fast_period"] ELSE DefaultFastPeriod
SlowOf(params) ==
  IF "slow_period" \in DOMAIN params THEN params["slow_period"] ELSE DefaultSlowPeriod

\* MovingAverageStrategy.__init__ raises ValueError
ConstructionFails(params) == FastOf(params) >= SlowOf(params)

\* the optimizer's extraction of the target metric from a run result
ExtractMetric(res, target) ==
  IF "metrics" \in DOMAIN res /\ target \in DOMAIN res.metrics THEN res.metrics[target]
  ELSE IF target \in DOMAIN res THEN res[target]
  ELSE 0

\* result_summary
Summary(params, res) ==
  [parameters |-> params,
   metrics |-> IF "metrics" \in DOMAIN res THEN res.metrics ELSE EmptyDict,
   total_return |-> IF "total_return" \in DOMAIN res THEN res.total_return ELSE 0,
   trades_count |-> IF "trades_count" \in DOMAIN res THEN res.trades_count ELSE 0]

\* the key of all_results.sort
SortKey(x, target) ==
  IF "metrics" \in DOMAIN x
  THEN (IF target \in DOMAIN x.metrics THEN x.metrics[target] ELSE 0)
  ELSE 0

\* list.sort(key=..., reverse=True): stable, descending
InsertDesc(sorted, x, target) ==
  LET n == Cardinality({j \in 1..Len(sorted) : SortKey(sorted[j], target) >= SortKey(x, target)})
  IN SubSeq(sorted, 1, n) \o <<x>> \o SubSeq(sorted, n + 1, Len(sorted))

RECURSIVE SortDesc(_, _)
SortDesc(seq, target) ==
  IF seq = <<>> THEN <<>>
  ELSE InsertDesc(SortDesc(SubSeq(seq, 1, Len(seq) - 1), target), Last(seq), target)

\* a result list that is not truncated
TopAll(seq) == seq

\* all_results[:10]
Top(seq) == SubSeq(seq, 1, IF Len(seq) < TopResults THEN Len(seq) ELSE TopResults)

\* an update that also replaces the best on an equal value
IsBetterOrEqual(metric_value, best) == metric_value >= best

\* "Update best parameters if better"
IsBetter(metric_value, best) == metric_value > best

\* setattr(self.strategy, param, value) for the best parameters
SetAttrs(strat, params) ==
  [nm \in DOMAIN strat \cup DOMAIN params |->
     IF nm \in DOMAIN params THEN params[nm] ELSE strat[nm]]

\* optimize_strategy(): "if not param_ranges" returns the error result
OptRejectEmpty ==
  /\ UNCHANGED runvars
  /\ UNCHANGED stratvars
  /\ UNCHANGED extvars
  /\ opc = "start"
  /\ param_ranges = <<>>
  /\ opt_result' = [error |-> "No parameters specified for optimization",
                    best_params |-> EmptyDict, best_value |-> 0, results |-> <<>>]
  /\ opc' = "returned"
  /\ UNCHANGED <<param_ranges, target_metric, runtable, combo_idx,
                 best_params, best_value, all_results, template, runs>>

\* optimize_strategy(): set up the search
OptStart ==
  /\ UNCHANGED runvars
  /\ UNCHANGED stratvars
  /\ UNCHANGED extvars
  /\ opc = "start"
  /\ param_ranges # <<>>
  /\ best_params' = EmptyDict
  /\ best_value' = NegInf
  /\ all_results' = <<>>
  /\ combo_idx' = 0
  /\ opc' = "search"
  /\ UNCHANGED <<param_ranges, target_metric, runtable, template, runs, opt_result>>

\* one iteration of the grid search whose strategy constructs
OptStep ==
  /\ UNCHANGED runvars
  /\ UNCHANGED stratvars
  /\ UNCHANGED extvars
  /\ opc = "search"
  /\ combo_idx < Len(Combinations)
  /\ LET params == ParamsOf(Combinations[combo_idx + 1]) IN
     /\ ~ConstructionFails(params)
     /\ LET res          == runtable[(combo_idx % TablePeriod) + 1]
            metric_value == ExtractMetric(res, target_metric)
        IN
        /\ runs' = runs + 1
        /\ all_results' = Append(all_results, Summary(params, res))
        /\ IF IsBetter(metric_value, best_value)
           THEN best_value' = metric_value /\ best_params' = params
           ELSE UNCHANGED <<best_value, best_params>>
  /\ combo_idx' = combo_idx + 1
  /\ UNCHANGED <<opc, param_ranges, target_metric, runtable, template, opt_result>>

\* one iteration whose strategy constructor raises: nothing catches the
\* ValueError, it leaves optimize_strategy()
OptRaise ==
  /\ UNCHANGED runvars
  /\ UNCHANGED stratvars
  /\ UNCHANGED extvars
  /\ opc = "search"
  /\ combo_idx < Len(Combinations)
  /\ ConstructionFails(ParamsOf(Combinations[combo_idx + 1]))
  /\ opc' = "raised"
  /\ UNCHANGED <<param_ranges, target_metric, runtable, combo_idx,
                 best_params, best_value, all_results, template, runs, opt_result>>

\* optimize_strategy() after the loop: sort, update self.strategy, return
OptFinish ==
  /\ UNCHANGED runvars
  /\ UNCHANGED stratvars
  /\ UNCHANGED extvars
  /\ opc = "search"
  /\ combo_idx >= Len(Combinations)
  /\ all_results' = SortDesc(all_results, target_metric)
  /\ template' = SetAttrs(template, best_params)
  /\ opt_result' = [best_params |-> best_params, best_value |-> best_value,
                    results |-> Top(SortDesc(all_results, target_metric))]
  /\ opc' = "returned"
  /\ UNCHANGED <<param_ranges, target_metric, runtable, combo_idx,
                 best_params, best_value, runs>>

NextOpt == OptRejectEmpty \/ OptStart \/ OptStep \/ OptRaise \/ OptFinish

SpecOpt == InitOpt /\ [][NextOpt]_vars

\* ------------------------------------------------- strategy API, on its own
HistExtra == 1
MaxTurn == 3

\* keyword arguments of MovingAverageStrategy(...), fast_period >= slow_period included
MAArgs ==
  [kind : {"MovingAverageStrategy"}, fast_period : {2, 3}, slow_period : {3},
   signal_threshold : {0, 1}, overbought_level : {70, 10}, oversold_level : {30, 90}]

\* keyword arguments of MeanReversionStrategy(...), with periods of 0 and
\* thresholds in the wrong order included
MRArgs ==
  [kind : {"MeanReversionStrategy"}, lookback_period : {0, 23}, std_dev : {1, 2},
   rsi_period : {0, 14}, oversold_threshold : {30, 70}, overbought_threshold : {70}]

CtorArgs == MAArgs \cup MRArgs

\* closes of n candles that fall by a per bar to a turn d bars before the
\* last one and rise by c per bar after it (dir = 1), or the mirror image
\* (dir = -1), around 1000 price units
Vee(n, d, a, c, dir) ==
  [k \in 1..n |->
     1000 + dir * (IF k <= n - d THEN a * ((n - d) - k) ELSE c * (k - (n - d)))]

Slopes == {<<1, 1>>, <<1, 2>>, <<20, 40>>}

\* the histories handed to analyze for a strategy that requires r candles
Histories(r) ==
  {Vee(n, d, sl[1], sl[2], dir) :
     n \in (r - 1)..(r + HistExtra), d \in 0..MaxTurn, sl \in Slopes, dir \in {1, 0 - 1}}

\* a caller about to construct a strategy and to analyze a history with it
InitStrat ==
  /\ OptIdle
  /\ PMIdle /\ RiskIdle /\ FactIdle /\ run_calls = 0
  /\ RunInit("idle")
  /\ candles = <<>> /\ required = 0
  /\ initial_capital = FZero /\ commission_pct = FZero /\ slippage_pct = FZero
  /\ strategy = None
  /\ spc = "new"
  /\ analysis = None
  /\ ctor_args \in CtorArgs
  /\ ticks \in Histories(RequiredCount(ctor_args))

\* MovingAverageStrategy.__init__: the check of the periods
MAInvalid(args) == args.fast_period >= args.slow_period

\* MovingAverageStrategy(**ctor_args) raises ValueError
ConstructMARaise ==
  /\ UNCHANGED <<runvars, optvars, extvars>>
  /\ spc = "new"
  /\ ctor_args.kind = "MovingAverageStrategy"
  /\ MAInvalid(ctor_args)
  /\ spc' = "raised"
  /\ UNCHANGED <<strategy, ticks, ctor_args, analysis>>

\* MovingAverageStrategy(**ctor_args) returns the object
ConstructMA ==
  /\ UNCHANGED <<runvars, optvars, extvars>>
  /\ spc = "new"
  /\ ctor_args.kind = "MovingAverageStrategy"
  /\ ~MAInvalid(ctor_args)
  /\ strategy' = ctor_args
  /\ spc' = "ready"
  /\ UNCHANGED <<ticks, ctor_args, analysis>>

\* MeanReversionStrategy(**ctor_args): the attributes are stored as given
ConstructMR ==
  /\ UNCHANGED <<runvars, optvars, extvars>>
  /\ spc = "new"
  /\ ctor_args.kind = "MeanReversionStrategy"
  /\ strategy' = ctor_args
  /\ spc' = "ready"
  /\ UNCHANGED <<ticks, ctor_args, analysis>>

\* strategy.analyze(candles) on the constructed object
AnalyzeCall ==
  /\ UNCHANGED <<runvars, optvars, extvars>>
  /\ spc = "ready"
  /\ analysis' = Analyze(strategy, ticks)
  /\ spc' = "analyzed"
  /\ UNCHANGED <<strategy, ticks, ctor_args>>

NextStrat == ConstructMARaise \/ ConstructMA \/ ConstructMR \/ AnalyzeCall

SpecStrat == InitStrat /\ [][NextStrat]_vars

\* ------------------------------- Backtest.run driven by a concrete strategy
\* closes in units of 1/99: 100 candles rising by 10 units each go from
\* 100 to 110
TickUnit == 99

LinearRise(n) == [k \in 1..n |-> 100 * TickUnit + 10 * (k - 1)]
LinearFall(n) == [k \in 1..n |-> 110 * TickUnit - 10 * (k - 1)]

\* closes that rise for 10 bars and fall for 10 bars, in turn
Triangle(n) ==
  [k \in 1..n |->
     100 * TickUnit
       + 10 * (IF ((k - 1) % 20) < 10 THEN (k - 1) % 20 ELSE 20 - ((k - 1) % 20))]

ScenarioSeries ==
  {LinearRise(100), LinearFall(100), Triangle(100), LinearRise(34), LinearRise(35)}

\* float(candle['c']) of a close given in ticks
PriceOfTick(tick) == FDiv(FInt(tick), FInt(TickUnit))

\* MovingAverageStrategy(fast_period=3, slow_period=5), the other arguments at their defaults
ScenarioStrategy ==
  [kind |-> "MovingAverageStrategy", fast_period |-> 3, slow_period |-> 5,
   signal_threshold |-> 0, overbought_level |-> 70, oversold_level |-> 30]

ScenarioCapital == FInt(10000)

\* Backtest(ScenarioStrategy, initial_capital=10000, ...) and the caller's candles
InitScenario ==
  /\ OptIdle
  /\ PMIdle /\ RiskIdle /\ FactIdle /\ run_calls = 1
  /\ RunInit("start")
  /\ strategy = ScenarioStrategy
  /\ spc = "ready" /\ ctor_args = ScenarioStrategy /\ analysis = None
  /\ ticks \in ScenarioSeries
  /\ candles = [k \in 1..Len(ticks) |-> PriceOfTick(ticks[k])]
  /\ required = RequiredCount(strategy)
  /\ initial_capital = ScenarioCapital
  /\ commission_pct \in Commissions
  /\ slippage_pct \in Slippages

SpecScenario == InitScenario /\ [][Next]_vars

\* ------------------------------------ PerformanceMetrics.calculate_metrics
MaxPts == 4
MaxTrips == 2

EquityLevels == {FInt(8), FInt(11), FInt(12)}

\* equity curves: one row per day, positive equity
Curves ==
  UNION {{[k \in 1..n |-> [date |-> k - 1, equity |-> e[k]]] : e \in [1..n -> EquityLevels]} :
           n \in 0..MaxPts}

\* result and holding period (days) of a round trip
TripOutcomes ==
  {[pl |-> FInt(2), hold |-> 1], [pl |-> FInt(2), hold |-> 3],
   [pl |-> FZero, hold |-> 2], [pl |-> FInt(0 - 1), hold |-> 1]}

\* the ledger the engine writes for a sequence of round trips: a Buy record
\* without result fields, then the Sell record that closes it
RECURSIVE LedgerOf(_)
LedgerOf(outs) ==
  IF outs = <<>> THEN <<>>
  ELSE LET before == LedgerOf(SubSeq(outs, 1, Len(outs) - 1))
           start  == IF before = <<>> THEN 0 ELSE Last(before).time + 1
           o      == Last(outs)
       IN before \o <<[type |-> "buy", time |-> start],
                       [type |-> "sell", time |-> start + o.hold,
                        profit_loss |-> o.pl, holding_period |-> o.hold]>>

Ledgers == UNION {{LedgerOf(outs) : outs \in [1..n -> TripOutcomes]} : n \in 0..MaxTrips}

\* a caller about to compute the metrics of a curve and a ledger
InitPM ==
  /\ OptIdle /\ RunInit("idle") /\ StratIdle /\ RiskIdle /\ FactIdle /\ run_calls = 0
  /\ candles = <<>> /\ required = 0
  /\ initial_capital = FZero /\ commission_pct = FZero /\ slippage_pct = FZero
  /\ mpc = "call"
  /\ pm_curve \in Curves
  /\ pm_trades \in Ledgers
  /\ pm_metrics = None

FMax(a, b) == IF FGt(b, a) THEN b ELSE a
FMin(a, b) == IF FLt(b, a) THEN b ELSE a

\* equity_curve['equity'].cummax() at row k
RECURSIVE CumMax(_, _)
CumMax(curve, k) == IF k = 1 THEN curve[1].equity ELSE FMax(CumMax(curve, k - 1), curve[k].equity)

\* (equity / cummax - 1) * 100 at row k
Drawdown(curve, k) == FMul(FSub(FDiv(curve[k].equity, CumMax(curve, k)), FOne), FHundred)

\* equity_curve['drawdown'].min()
RECURSIVE MinDrawdown(_, _)
MinDrawdown(curve, k) ==
  IF k = 1 THEN Drawdown(curve, 1) ELSE FMin(MinDrawdown(curve, k - 1), Drawdown(curve, k))

MaxDrawdown(curve) == FAbs(MinDrawdown(curve, Len(curve)))

IsDrawdown(curve, k) == FLt(Drawdown(curve, k), FZero)

\* a ratio that divides without looking at the drawdown
CalmarRatioUnguarded(annualized_return, max_drawdown) ==
  IF max_drawdown = FZero THEN FInf ELSE FDiv(annualized_return, max_drawdown)

\* annualized_return / max_drawdown if max_drawdown > 0 else 0
CalmarRatio(annualized_return, max_drawdown) ==
  IF FGt(max_drawdown, FZero) THEN FDiv(annualized_return, max_drawdown) ELSE FZero

\* a scan that drops the period still open at the last row
ClosePeriodNever(scan, curve) == scan.periods

\* "Handle ongoing drawdown": the open period ends at the last row
ClosePeriod(scan, curve) ==
  IF scan.current # None
  THEN Append(scan.periods,
              [start |-> scan.current.start, end |-> Len(curve) - 1,
               duration |-> Last(curve).date - scan.current.start_date])
  ELSE scan.periods

\* the loop over the rows 1..k: the periods closed so far and the open one
RECURSIVE DrawdownScan(_, _)
DrawdownScan(curve, k) ==
  IF k = 0 THEN [periods |-> <<>>, current |-> None]
  ELSE LET prev == DrawdownScan(curve, k - 1) IN
       IF IsDrawdown(curve, k) /\ prev.current = None
       THEN [periods |-> prev.periods,
             current |-> [start |-> k - 1, start_date |-> curve[k].date]]
       ELSE IF ~IsDrawdown(curve, k) /\ prev.current # None
       THEN [periods |-> Append(prev.periods,
                                [start |-> prev.current.start, end |-> k - 1,
                                 duration |-> curve[k].date - prev.current.start_date]),
             current |-> None]
       ELSE prev

DrawdownPeriods(curve) ==
  IF \E k \in 1..Len(curve) : IsDrawdown(curve, k)
  THEN ClosePeriod(DrawdownScan(curve, Len(curve)), curve)
  ELSE <<>>

RECURSIVE SumOf(_)
SumOf(seq) == IF seq = <<>> THEN 0 ELSE Last(seq) + SumOf(SubSeq(seq, 1, Len(seq) - 1))

RECURSIVE MaxOf(_)
MaxOf(seq) ==
  IF Len(seq) = 1 THEN seq[1]
  ELSE LET m == MaxOf(SubSeq(seq, 1, Len(seq) - 1)) IN IF Last(seq) > m THEN Last(seq) ELSE m

RECURSIVE MinOf(_)
MinOf(seq) ==
  IF Len(seq) = 1 THEN seq[1]
  ELSE LET m == MinOf(SubSeq(seq, 1, Len(seq) - 1)) IN IF Last(seq) < m THEN Last(seq) ELSE m

\* np.mean(values) if values else 0, as an exact ratio
MeanOf(seq) == IF seq = <<>> THEN RInt(0) ELSE [n |-> SumOf(seq), d |-> Len(seq)]

\* [t.get('holding_period', 0) for t in trades]
HoldingPeriods(ledger) ==
  [k \in 1..Len(ledger) |->
     IF "holding_period" \in DOMAIN ledger[k] THEN ledger[k].holding_period ELSE 0]

\* one iteration of "for trade in trades" of the streak loop
StreakStep(st, trade) ==
  IF FGt(ProfitLossOf(trade), FZero)
  THEN LET cur == IF st.current_streak > 0 THEN st.current_streak + 1 ELSE 1
       IN [st EXCEPT !.current_streak = cur,
                     !.max_consecutive_wins = IF cur > @ THEN cur ELSE @]
  ELSE LET cur == IF st.current_streak < 0 THEN st.current_streak - 1 ELSE 0 - 1
       IN [st EXCEPT !.current_streak = cur,
                     !.max_consecutive_losses = IF 0 - cur > @ THEN 0 - cur ELSE @]

RECURSIVE Streaks(_)
Streaks(ledger) ==
  IF ledger = <<>>
  THEN [current_streak |-> 0, max_consecutive_wins |-> 0, max_consecutive_losses |-> 0]
  ELSE StreakStep(Streaks(SubSeq(ledger, 1, Len(ledger) - 1)), Last(ledger))

\* the values ((1 + total_return / 100) ** (1 / years) - 1) * 100 may take;
\* the power is not computed, the metrics below only divide by or into it
AnnualizedReturns(curve) ==
  IF Last(curve).date - curve[1].date > 0 THEN {FInt(0 - 3), FInt(5)} ELSE {FZero}

\* the drawdown entries of the metrics dict
DrawdownMetrics(curve, annualized_return) ==
  LET periods   == DrawdownPeriods(curve)
      durations == [k \in 1..Len(periods) |-> periods[k].duration]
  IN [annualized_return |-> annualized_return,
      max_drawdown |-> MaxDrawdown(curve),
      calmar_ratio |-> CalmarRatio(annualized_return, MaxDrawdown(curve)),
      max_drawdown_duration |-> IF durations = <<>> THEN 0 ELSE MaxOf(durations),
      avg_drawdown_duration |-> MeanOf(durations),
      drawdown_periods_count |-> Len(periods)]

\* the trade entries of the metrics dict
TradeMetrics(ledger) ==
  IF Len(ledger) > 0
  THEN [trades_count |-> Len(ledger),
        winning_trades_count |->
          Cardinality({k \in 1..Len(ledger) : FGt(ProfitLossOf(ledger[k]), FZero)}),
        losing_trades_count |->
          Cardinality({k \in 1..Len(ledger) : ~FGt(ProfitLossOf(ledger[k]), FZero)}),
        avg_holding_period |-> MeanOf(HoldingPeriods(ledger)),
        max_holding_period |-> MaxOf(HoldingPeriods(ledger)),
        min_holding_period |-> MinOf(HoldingPeriods(ledger)),
        max_consecutive_wins |-> Streaks(ledger).max_consecutive_wins,
        max_consecutive_losses |-> Streaks(ledger).max_consecutive_losses]
  ELSE [trades_count |-> 0, winning_trades_count |-> 0, losing_trades_count |-> 0,
        avg_holding_period |-> RInt(0), max_holding_period |-> 0, min_holding_period |-> 0,
        max_consecutive_wins |-> 0, max_consecutive_losses |-> 0]

\* dict union of the parts of the metrics
Merge(a, b) == [nm \in DOMAIN a \cup DOMAIN b |-> IF nm \in DOMAIN a THEN a[nm] ELSE b[nm]]

\* PerformanceMetrics.calculate_metrics(equity_curve, trades); the
\* volatility, Sharpe, Sortino and profit entries are not modelled
CalculateMetrics ==
  /\ UNCHANGED <<runvars, optvars, stratvars, riskvars, factvars, run_calls>>
  /\ mpc = "call"
  /\ IF Len(pm_curve) = 0
     THEN pm_metrics' = EmptyDict
     ELSE \E ann \in AnnualizedReturns(pm_curve) :
            pm_metrics' =
              Merge([total_return |->
                       FMul(FSub(FDiv(Last(pm_curve).equity, pm_curve[1].equity), FOne),
                            FHundred)],
                    Merge(DrawdownMetrics(pm_curve, ann), TradeMetrics(pm_trades)))
  /\ mpc' = "returned"
  /\ UNCHANGED <<pm_curve, pm_trades>>

NextPM == CalculateMetrics

SpecPM == InitPM /\ [][NextPM]_vars

\* ------------------------------------------------------------ RiskManager
MaxCalls == 4

PortfolioValues == {FInt(8), FInt(10), FInt(12)}

\* max_drawdown_pct: 1/4, 1/2;  daily_loss_limit_pct: 1/8, 1/4
DrawdownLimits == {[m |-> Pow2(Prec - 1), e |-> 0 - (Prec + 1)], [m |-> Pow2(Prec - 1), e |-> 0 - Prec]}
DailyLossLimits == {[m |-> Pow2(Prec - 1), e |-> 0 - (Prec + 2)], [m |-> Pow2(Prec - 1), e |-> 0 - (Prec + 1)]}

\* RiskManager(max_drawdown_pct=..., daily_loss_limit_pct=...)
NewRiskManager(max_drawdown_pct, daily_loss_limit_pct) ==
  [max_drawdown_pct |-> max_drawdown_pct,
   daily_loss_limit_pct |-> daily_loss_limit_pct,
   initial_portfolio_value |-> FZero,
   max_portfolio_value |-> FZero,
   daily_starting_value |-> FZero,
   daily_losses |-> FZero]

InitRisk ==
  /\ OptIdle
  /\ StratIdle
  /\ PMIdle /\ FactIdle /\ run_calls = 0
  /\ RunInit("idle")
  /\ candles = <<>> /\ required = 0
  /\ initial_capital = FZero /\ commission_pct = FZero /\ slippage_pct = FZero
  /\ rpc = "ready"
  /\ rm \in {NewRiskManager(d, l) : d \in DrawdownLimits, l \in DailyLossLimits}
  /\ last_value = None
  /\ rm_calls = 0
  /\ can_open = None

\* initialize_portfolio(portfolio_value)
InitializePortfolio ==
  /\ UNCHANGED <<runvars, optvars, stratvars, pmvars, factvars, run_calls>>
  /\ rpc = "ready"
  /\ rm_calls < MaxCalls
  /\ \E portfolio_value \in PortfolioValues :
       /\ rm' = [rm EXCEPT !.initial_portfolio_value = portfolio_value,
                           !.max_portfolio_value = portfolio_value,
                           !.daily_starting_value = portfolio_value,
                           !.daily_losses = FZero]
       /\ last_value' = portfolio_value
  /\ rm_calls' = rm_calls + 1
  /\ can_open' = None
  /\ UNCHANGED rpc

\* reset_daily_tracking(portfolio_value)
ResetDailyTracking ==
  /\ UNCHANGED <<runvars, optvars, stratvars, pmvars, factvars, run_calls>>
  /\ rpc = "ready"
  /\ rm_calls < MaxCalls
  /\ \E portfolio_value \in PortfolioValues :
       /\ rm' = [rm EXCEPT !.daily_starting_value = portfolio_value,
                           !.daily_losses = FZero]
       /\ last_value' = portfolio_value
  /\ rm_calls' = rm_calls + 1
  /\ can_open' = None
  /\ UNCHANGED rpc

\* "if daily_pnl < 0: self.daily_losses = abs(daily_pnl)"
DailyLossesAfter(r, portfolio_value) ==
  LET daily_pnl == FSub(portfolio_value, r.daily_starting_value) IN
  IF FLt(daily_pnl, FZero) THEN FAbs(daily_pnl) ELSE r.daily_losses

\* update_portfolio_value(portfolio_value)
UpdatePortfolioValue ==
  /\ UNCHANGED <<runvars, optvars, stratvars, pmvars, factvars, run_calls>>
  /\ rpc = "ready"
  /\ rm_calls < MaxCalls
  /\ \E portfolio_value \in PortfolioValues :
       /\ rm' = [rm EXCEPT !.max_portfolio_value =
                             IF FGt(portfolio_value, rm.max_portfolio_value)
                             THEN portfolio_value ELSE rm.max_portfolio_value,
                           !.daily_losses = DailyLossesAfter(rm, portfolio_value)]
       /\ last_value' = portfolio_value
  /\ rm_calls' = rm_calls + 1
  /\ can_open' = None
  /\ UNCHANGED rpc

\* the value of can_open_position(portfolio_value); a division by a zero
\* tracking value raises ZeroDivisionError
CanOpen(r, portfolio_value) ==
  IF r.max_portfolio_value = FZero THEN [raised |-> "ZeroDivisionError"]
  ELSE IF ~FLt(FDiv(FSub(r.max_portfolio_value, portfolio_value), r.max_portfolio_value),
               r.max_drawdown_pct)
  THEN [allowed |-> FALSE, reason |-> "Max drawdown exceeded"]
  ELSE IF r.daily_starting_value = FZero THEN [raised |-> "ZeroDivisionError"]
  ELSE IF ~FLt(FDiv(r.daily_losses, r.daily_starting_value), r.daily_loss_limit_pct)
  THEN [allowed |-> FALSE, reason |-> "Daily loss limit exceeded"]
  ELSE [allowed |-> TRUE, reason |-> "Within risk limits"]

\* can_open_position(portfolio_value) with the value last reported
CanOpenPosition ==
  /\ UNCHANGED <<runvars, optvars, stratvars, pmvars, factvars, run_calls>>
  /\ rpc = "ready"
  /\ rm_calls < MaxCalls
  /\ last_value # None
  /\ can_open' = CanOpen(rm, last_value)
  /\ rm_calls' = rm_calls + 1
  /\ UNCHANGED <<rpc, rm, last_value>>

NextRisk == InitializePortfolio \/ ResetDailyTracking \/ UpdatePortfolioValue \/ CanOpenPosition

SpecRisk == InitRisk /\ [][NextRisk]_vars

\* ------------------------------------------- StrategyFactory.create_strategy
\* STRATEGY_REGISTRY: strategy id -> class
Registry ==
  [moving_average |-> "MovingAverageStrategy", mean_reversion |-> "MeanReversionStrategy"]

StrategyIds == DOMAIN Registry \cup {"momentum"}

\* the keyword parameters of the constructors and their defaults
CtorDefaults(kind) ==
  IF kind = "MovingAverageStrategy"
  THEN [fast_period |-> DefaultFastPeriod, slow_period |-> DefaultSlowPeriod,
        signal_threshold |-> 0, overbought_level |-> 70, oversold_level |-> 30]
  ELSE [lookback_period |-> 20, std_dev |-> 2, rsi_period |-> RsiWindow,
        oversold_threshold |-> 30, overbought_threshold |-> 70]

\* the keyword parameters of RiskManager(...) and their defaults, in percent
RiskDefaults ==
  [max_position_size_pct |-> 5, stop_loss_pct |-> 2, take_profit_pct |-> 4,
   max_drawdown_pct |-> 10, daily_loss_limit_pct |-> 3]

\* risk_params of the call: None, {}, valid mappings, a mapping with an unknown key
RiskParamSets ==
  {None, EmptyDict,
   [stop_loss_pct |-> 1],
   [stop_loss_pct |-> 1, take_profit_pct |-> 6],
   [max_loss |-> 1]}

\* **kwargs of the call
KwargSets ==
  {EmptyDict,
   [fast_period |-> 5],
   [fast_period |-> 5, slow_period |-> 20],
   [fast_period |-> 30, slow_period |-> 10],
   [lookback_period |-> 10],
   [lookback_period |-> 10, std_dev |-> 3],
   [window |-> 10]}

InitFactory ==
  /\ OptIdle
  /\ StratIdle
  /\ PMIdle /\ RiskIdle /\ run_calls = 0
  /\ RunInit("idle")
  /\ candles = <<>> /\ required = 0
  /\ initial_capital = FZero /\ commission_pct = FZero /\ slippage_pct = FZero
  /\ fpc = "call"
  /\ strategy_id \in StrategyIds
  /\ risk_params \in RiskParamSets
  /\ kwargs \in KwargSets
  /\ created = None

\* "if risk_params": None and {} are false
Truthy(d) == d # None /\ d # EmptyDict

\* the defaults overridden by the keyword arguments given
WithDefaults(defaults, given) ==
  [nm \in DOMAIN defaults |-> IF nm \in DOMAIN given THEN given[nm] ELSE defaults[nm]]

\* RiskManager(**risk_params) raises TypeError on an unknown keyword
RiskManagerRaises(params) == ~(DOMAIN params \subseteq DOMAIN RiskDefaults)

\* strategy_class(**kw) raises: TypeError on a keyword that __init__ does
\* not declare, ValueError on fast_period >= slow_period
ClassRaises(kind, kw) ==
  \/ ~(DOMAIN kw \subseteq DOMAIN CtorDefaults(kind))
  \/ /\ kind = "MovingAverageStrategy"
     /\ WithDefaults(CtorDefaults(kind), kw).fast_period
          >= WithDefaults(CtorDefaults(kind), kw).slow_period

\* kwargs as handed to the class: kwargs['risk_manager'] = RiskManager(**risk_params)
KwargsForClass ==
  IF Truthy(risk_params)
  THEN [nm \in DOMAIN kwargs \cup {"risk_manager"} |->
          IF nm = "risk_manager" THEN WithDefaults(RiskDefaults, risk_params) ELSE kwargs[nm]]
  ELSE kwargs

\* the constructed object: Strategy.__init__ is called without a risk
\* manager and stores RiskManager()
NewStrategy(kind, kw) ==
  [kind |-> kind,
   parameters |-> WithDefaults(CtorDefaults(kind), kw),
   risk_manager |-> RiskDefaults]

\* create_strategy(): unknown id, return None
CreateUnknown ==
  /\ UNCHANGED <<runvars, optvars, stratvars, pmvars, riskvars, run_calls>>
  /\ fpc = "call"
  /\ strategy_id \notin DOMAIN Registry
  /\ created' = None
  /\ fpc' = "returned"
  /\ UNCHANGED <<strategy_id, risk_params, kwargs>>

\* create_strategy(): an exception inside the try block, return None
CreateFails ==
  /\ UNCHANGED <<runvars, optvars, stratvars, pmvars, riskvars, run_calls>>
  /\ fpc = "call"
  /\ strategy_id \in DOMAIN Registry
  /\ \/ Truthy(risk_params) /\ RiskManagerRaises(risk_params)
     \/ ClassRaises(Registry[strategy_id], KwargsForClass)
  /\ created' = None
  /\ fpc' = "returned"
  /\ UNCHANGED <<strategy_id, risk_params, kwargs>>

\* create_strategy(): return the constructed strategy
CreateStrategy ==
  /\ UNCHANGED <<runvars, optvars, stratvars, pmvars, riskvars, run_calls>>
  /\ fpc = "call"
  /\ strategy_id \in DOMAIN Registry
  /\ ~(Truthy(risk_params) /\ RiskManagerRaises(risk_params))
  /\ ~ClassRaises(Registry[strategy_id], KwargsForClass)
  /\ created' = NewStrategy(Registry[strategy_id], KwargsForClass)
  /\ fpc' = "returned"
  /\ UNCHANGED <<strategy_id, risk_params, kwargs>>

NextFactory == CreateUnknown \/ CreateFails \/ CreateStrategy

SpecFactory == InitFactory /\ [][NextFactory]_vars

\* =================================================================== claims
FAbsLeq(a, b) == ~FGt(a, b) /\ ~FLt(a, FNeg(b))
\* one unit in the last place of the float a
Ulp(a) == [m |-> Pow2(Prec - 1), e |-> a.e - (Prec - 1)]

\* ---- C1: the ledger alternates Buy, Sell, ... starting with a Buy; the
\* quantity is non-zero exactly while the last ledger entry is a Buy; a Buy
\* signal while Long appends no trade; a Sell signal while Flat appends no
\* trade and changes neither cash nor quantity.
C1_LedgerInv ==
  pc \in {"loop", "done"} =>
    /\ \A k \in 1..Len(trades) :
         trades[k].type = IF k % 2 = 1 THEN "buy" ELSE "sell"
    /\ (position # FZero) <=> (Len(trades) % 2 = 1)
    /\ position # FZero => FGt(position, FZero)

C1_BarStep ==
  (pc = "loop" /\ pc' = "loop") =>
    /\ (signal' = 1 /\ position # FZero) =>
          (trades' = trades /\ position' = position)
    /\ (signal' = 0 - 1 /\ position = FZero) =>
          (trades' = trades /\ cash' = cash /\ position' = position)

C1_FlatLongStateMachine == [](C1_LedgerInv) /\ [][C1_BarStep]_vars

\* Buy, Sell, Buy, then a Buy signal received while Long
C1_Witness ==
  /\ pc = "loop" /\ Len(trades) = 3 /\ signal = 1
  /\ trades[3].time < i - 1

\* ---- C2: leaving the loop Long appends exactly one closing Sell priced at
\* the last close times (1 - slippage_pct) with commission = proceeds *
\* commission_pct and sets the position to 0; every completed run ends Flat
\* with a ledger of even length whose last entry (if any) is a Sell.
C2_FinishStep ==
  (pc = "loop" /\ pc' = "done") =>
    /\ FGt(position, FZero) =>
         /\ Len(trades') = Len(trades) + 1
         /\ SubSeq(trades', 1, Len(trades)) = trades
         /\ Last(trades').type = "sell"
         /\ Last(trades').price = FMul(Last(candles), FSub(FOne, slippage_pct))
         /\ Last(trades').value = FMul(position, Last(trades').price)
         /\ Last(trades').commission = FMul(Last(trades').value, commission_pct)
    /\ ~FGt(position, FZero) => trades' = trades
    /\ position' = FZero
    /\ Len(trades') % 2 = 0
    /\ trades' # <<>> => Last(trades').type = "sell"

C2_ForcedLiquidation == [][C2_FinishStep]_vars

\* a run closed by the forced liquidation: the last bar's signal was not a Sell
C2_Witness ==
  /\ pc = "done" /\ trades # <<>> /\ signal # 0 - 1
  /\ Last(trades).type = "sell" /\ Last(trades).time = Len(candles) - 1
  /\ Len(trades) = 2 /\ trades[1].time < Len(candles) - 1

\* ---- C3: for N >= R the run completes without error and the equity curve
\* has exactly N - R points, one per evaluated bar in series order; for
\* N = R the curve is empty.
C3_EquityCurveLength ==
  /\ (pc \in {"done", "error"} /\ Len(candles) >= required) =>
        /\ pc = "done"
        /\ "error" \notin DOMAIN result
        /\ Len(equity_curve) = 1
        /\ LET curve == equity_curve[1] IN
           /\ curve.date = [k \in 1..(Len(candles) - required) |-> required + k - 1]
           /\ Len(curve.equity) = Len(candles) - required
           /\ Len(curve.cash) = Len(candles) - required
           /\ Len(curve.position) = Len(candles) - required

\* three evaluated bars, the last of them a Hold bar
C3_Witness ==
  /\ pc = "done" /\ Len(candles) - required = 3 /\ signal = 0
  /\ Len(equity_curve[1].equity) = 3

\* ---- C4: the history handed to analyze at bar t holds no candle index
\* greater than t.
C4_NoLookahead ==
  (pc = "loop" /\ analyze_calls > 0) => \A k \in hist_indices : k <= i - 1

C4_Witness == pc = "loop" /\ analyze_calls >= 2 /\ Cardinality(hist_indices) >= 2

\* ---- C5: with fewer candles than required, run returns a result that
\* holds only the error entry (no equity curve, no trades), evaluates no bar
\* and never calls analyze.
C5_NotEnoughCandles ==
  (pc # "start" /\ Len(candles) < required) =>
     /\ pc = "error"
     /\ DOMAIN result = {"error"}
     /\ analyze_calls = 0
     /\ dates = <<>> /\ equity_values = <<>>

C5_Witness == pc = "error" /\ Len(candles) = required - 1 /\ "error" \in DOMAIN result

\* ---- C10 (as stated): with zero commission and slippage a Buy at close p
\* followed by a Sell at the same close p returns cash to exactly its
\* pre-trade value, with profit_loss = 0 and profit_loss_pct = 0.
RoundTrip ==
  /\ pc \in {"loop", "done"}
  /\ commission_pct = FZero /\ slippage_pct = FZero
  /\ Len(trades) > 0 /\ Len(trades) % 2 = 0
  /\ trades[Len(trades) - 1].price = Last(trades).price

C10_ExactRoundTrip ==
  RoundTrip =>
    /\ cash = trades[Len(trades) - 1].value
    /\ Last(trades).profit_loss = FZero
    /\ Last(trades).profit_loss_pct = FZero

\* ---- C10 (amended): the round trip returns cash to its pre-trade value up
\* to floating-point rounding: cash and the pre-trade cash differ by at most
\* one unit in the last place, profit_loss is exactly that difference, and
\* profit_loss_pct is at most 100 units in the last place of 1.
C10_RoundTripWithinRounding ==
  RoundTrip =>
    LET pre == trades[Len(trades) - 1].value IN
    /\ FAbsLeq(FSub(cash, pre), Ulp(pre))
    /\ Last(trades).profit_loss = FSub(cash, pre)
    /\ FAbsLeq(Last(trades).profit_loss_pct, FMul(FHundred, Ulp(FOne)))

\* a round trip at a price by which the cash does not divide exactly
C10_Witness ==
  /\ RoundTrip
  /\ cash # trades[Len(trades) - 1].value

\* ---- optimizer claims: the grid as the caller wrote it
GridSize ==
  IF Len(param_ranges) = 1 THEN Len(param_ranges[1].values)
  ELSE Len(param_ranges[1].values) * Len(param_ranges[2].values)

\* the j-th combination (1-based) in Cartesian-product order, names in
\* declared order, the last parameter varying fastest
EnumParams(j) ==
  IF Len(param_ranges) = 1 THEN [fast_period |-> param_ranges[1].values[j]]
  ELSE LET n2 == Len(param_ranges[2].values) IN
       [fast_period |-> param_ranges[1].values[((j - 1) \div n2) + 1],
        slow_period |-> param_ranges[2].values[((j - 1) % n2) + 1]]

\* the result of the run of the j-th combination, and its target value by
\* the rule "first metrics, then top-level fields, else 0"
RunOf(j) == runtable[((j - 1) % TablePeriod) + 1]
TargetOf(j) ==
  LET res == RunOf(j) IN
  IF "metrics" \in DOMAIN res /\ target_metric \in DOMAIN res.metrics
  THEN res.metrics[target_metric]
  ELSE IF target_metric \in DOMAIN res THEN res[target_metric] ELSE 0

Searched == opc = "returned" /\ param_ranges # <<>>

\* ---- C6: a combination whose strategy construction fails is skipped; the
\* search goes on and returns best_params, best_value and results computed
\* from the combinations that constructed.
C6_FailedConstructionSkipped ==
  /\ opc # "raised"
  /\ (opc = "search" /\ param_ranges # <<>>) =>
        Len(all_results) =
          Cardinality({j \in 1..combo_idx : EnumParams(j).fast_period <
              (IF Len(param_ranges) = 1 THEN DefaultSlowPeriod ELSE EnumParams(j).slow_period)})

\* ---- C7: for K >= 1 combinations that all construct, best_value is the
\* maximum target value over the K runs and best_params is the earliest
\* combination in enumeration order that attains it.
C7_BestIsEarliestMaximum ==
  (Searched /\ GridSize >= 1) =>
    LET first == CHOOSE j \in 1..GridSize :
                   /\ \A h \in 1..GridSize : TargetOf(h) <= TargetOf(j)
                   /\ \A h \in 1..(j - 1) : TargetOf(h) < TargetOf(j)
    IN /\ opt_result.best_value = TargetOf(first)
       /\ opt_result.best_params = EnumParams(first)

\* the maximum is attained twice, first by a combination that is not the first
C7_Witness ==
  /\ Searched /\ GridSize >= 4 /\ Len(param_ranges) = 2
  /\ \E j \in 2..GridSize, h \in 3..GridSize :
       /\ j < h /\ TargetOf(j) = TargetOf(h) /\ TargetOf(1) < TargetOf(j)
       /\ opt_result.best_value = TargetOf(j)
       /\ opt_result.best_params = EnumParams(j)

\* ---- C8: results is sorted in descending order of the target value
\* extracted by the optimizer's own rule, so a non-empty results starts with
\* best_params and best_value, for every target metric name.
SummaryTarget(x) ==
  IF target_metric \in DOMAIN x.metrics THEN x.metrics[target_metric]
  ELSE IF target_metric \in DOMAIN x THEN x[target_metric] ELSE 0

C8_ResultsSortedByTarget ==
  (Searched /\ opt_result.results # <<>>) =>
    LET rs == opt_result.results IN
    /\ \A j \in 1..(Len(rs) - 1) : SummaryTarget(rs[j]) >= SummaryTarget(rs[j + 1])
    /\ rs[1].parameters = opt_result.best_params
    /\ SummaryTarget(rs[1]) = opt_result.best_value

\* ---- C9: for K combinations that all construct, results has exactly
\* min(10, K) entries, each the summary of a distinct enumerated combination.
C9_ResultsLength ==
  Searched =>
    LET rs == opt_result.results IN
    /\ Len(rs) = IF GridSize < 10 THEN GridSize ELSE 10
    /\ \A j \in 1..Len(rs) : \E h \in 1..GridSize :
         /\ rs[j].parameters = EnumParams(h)
         /\ rs[j].trades_count =
              (IF "trades_count" \in DOMAIN RunOf(h) THEN RunOf(h).trades_count ELSE 0)
    /\ \A j, h \in 1..Len(rs) : j # h => rs[j].parameters # rs[h].parameters

\* a grid of more than ten combinations
C9_Witness == Searched /\ GridSize > 10 /\ Len(opt_result.results) = 10

\* ---- C11: for every successful run with a non-empty equity curve, the
\* total return recomputed from the stored curve, (last / first - 1) * 100,
\* equals the result's total_return field, and the first stored equity
\* point equals initial_capital, for every commission and slippage setting
\* and also when a Buy executes on the first evaluated bar.
C11_TotalReturnFromCurve ==
  (pc = "done" /\ equity_values # <<>>) =>
     /\ equity_curve[1].equity[1] = initial_capital
     /\ result.metrics.total_return = result.total_return
     /\ result.total_return =
          FMul(FSub(FDiv(Last(equity_curve[1].equity), equity_curve[1].equity[1]), FOne),
               FHundred)

\* a completed run that bought on the first evaluated bar, with commission
\* and slippage, and was liquidated at the end
C11_Witness ==
  /\ pc = "done" /\ Len(trades) = 2 /\ Len(equity_values) >= 2
  /\ trades[1].type = "buy" /\ trades[1].time = required
  /\ commission_pct # FZero /\ slippage_pct # FZero
  /\ result.total_return # FZero

\* ---- C12: the profit factor of a ledger is +infinity exactly when there
\* is at least one winning trade (profit_loss > 0) and no losing trade
\* (profit_loss < 0); in particular it is not +infinity for a non-empty
\* ledger without a winning trade, such as one Buy/Sell pair whose
\* profit_loss is exactly 0.
C12_ProfitFactorInfinity ==
  (pc = "done" /\ "profit_factor" \in DOMAIN result.metrics) =>
     (result.metrics.profit_factor = FInf
        <=> /\ \E k \in 1..Len(trades) : FGt(ProfitLossOf(trades[k]), FZero)
            /\ ~ \E k \in 1..Len(trades) : FLt(ProfitLossOf(trades[k]), FZero))

\* ---- C16: every successful result of run() carries the equity curve
\* next to strategy, parameters, initial_capital, final_equity,
\* total_return, metrics, trades_count and trades, so that the runner which
\* consumes the result writes the equity curve for every successful run.
C16_ResultCarriesEquityCurve ==
  pc = "done" =>
     /\ {"strategy", "parameters", "initial_capital", "final_equity", "total_return",
         "metrics", "trades_count", "trades", "equity_curve"} \subseteq DOMAIN result
     /\ "equity_curve.csv" \in SavedFiles(result)

\* ---- C17: the equity point appended for bar t is computed after any
\* trade executed at bar t: its cash and position value are the post-trade
\* cash and quantity * close(t), so a bar where a Buy executes shows cash 0
\* and a positive position value and a bar where a Sell executes shows
\* position value 0.  (The statement as claimed.)
C17_PointAfterTrade ==
  [][(pc = "loop" /\ Len(dates') = Len(dates) + 1) =>
       /\ Last(cash_values') = cash'
       /\ Last(position_values') = FMul(position', Close(i))]_vars

\* C17 as the code has it: the equity point appended for bar t is computed
\* before any trade executed at bar t, from the cash and quantity the
\* previous bar has left: equity = cash + quantity * close(t); so a bar
\* where a Buy executes shows the whole pre-trade cash and position value 0,
\* and a bar where a Sell executes shows the pre-trade cash and a
\* positive position value.
C17_PointBeforeTrade ==
  [][(pc = "loop" /\ Len(dates') = Len(dates) + 1) =>
       /\ Last(dates') = i
       /\ Last(cash_values') = cash
       /\ Last(position_values') = FMul(position, Close(i))
       /\ Last(equity_values') = FAdd(cash, FMul(position, Close(i)))
       /\ (Len(trades') = Len(trades) + 1 /\ Last(trades').type = "buy") =>
             /\ FGt(Last(cash_values'), FZero) /\ Last(position_values') = FZero
             /\ cash' = FZero /\ FGt(position', FZero)
       /\ (Len(trades') = Len(trades) + 1 /\ Last(trades').type = "sell") =>
             /\ FGt(Last(position_values'), FZero)
             /\ Last(cash_values') = FZero
             /\ position' = FZero /\ FGt(cash', FZero)]_vars

\* a curve that holds the point of a Buy bar and the point of a Sell bar
C17_Witness ==
  /\ pc = "loop" /\ Len(trades) = 2 /\ Len(dates) >= 2
  /\ trades[1].type = "buy" /\ trades[2].type = "sell"
  /\ trades[2].time = Last(dates) /\ trades[1].time = dates[Len(dates) - 1]
  /\ position_values[Len(dates)] # FZero /\ cash_values[Len(dates) - 1] # FZero

\* ---- C18: at step t of the loop the strategy is called with the candle
\* history up to and including index t (the prefix of length t + 1), so the
\* signal acted on at close(t) is the signal evaluated at bar t itself.
\* (The statement as claimed.)
C18_HistoryIncludesCurrentBar ==
  [][(pc = "loop" /\ analyze_calls' = analyze_calls + 1) =>
       hist_indices' = 0..i]_vars

\* C18 as the code has it: at step t the strategy is called with the
\* candles before index t (the prefix of length t, indices 0..t-1), so the
\* signal acted on at close(t) is the one evaluated at bar t - 1, the last
\* bar of that prefix; the first call gets exactly the required count.
C18_HistoryExcludesCurrentBar ==
  [][(pc = "loop" /\ analyze_calls' = analyze_calls + 1) =>
       /\ hist_indices' = 0..(i - 1)
       /\ Cardinality(hist_indices') = i
       /\ i \notin hist_indices'
       /\ (analyze_calls = 0 => Cardinality(hist_indices') = required)
       /\ (Len(trades') = Len(trades) + 1 =>
             /\ Last(trades').time = i
             /\ Last(trades').time \notin hist_indices'
             /\ (i > 0 => Last(trades').time - 1 \in hist_indices'))]_vars

\* a trade executed at a bar t > 0 on a signal computed from the bars before t
C18_Witness ==
  /\ pc = "loop" /\ trades # <<>> /\ Last(trades).time = i - 1 /\ i - 1 > 0
  /\ hist_indices = 0..(i - 2) /\ signal = 1

\* ---- C19: when a Sell executes while Long (signalled or forced),
\* exitPrice = close * (1 - slippage_pct), proceeds = quantity * exitPrice,
\* commission = proceeds * commission_pct, cash grows by proceeds -
\* commission, and the recorded profit_loss is proceeds minus the cost
\* basis, the full cash spent on the matching Buy (its commission
\* included); a forced liquidation uses the cost basis of the still-open Buy.
C19_SellAccounting ==
  [][(Len(trades') = Len(trades) + 1 /\ Last(trades').type = "sell") =>
       LET close      == IF pc' = "done" THEN Close(Len(candles) - 1) ELSE Close(i)
           exitPrice  == FMul(close, FSub(FOne, slippage_pct))
           proceeds   == FMul(position, exitPrice)
           commission == FMul(proceeds, commission_pct)
           buy        == Last(trades)
       IN /\ FGt(position, FZero)
          /\ buy.type = "buy"
          /\ Last(trades').price = exitPrice
          /\ Last(trades').quantity = position
          /\ Last(trades').quantity = buy.quantity
          /\ Last(trades').value = proceeds
          /\ Last(trades').commission = commission
          /\ cash' = FAdd(cash, FSub(proceeds, commission))
          /\ Last(trades').profit_loss = FSub(proceeds, buy.value)
          /\ buy.commission = FMul(buy.value, commission_pct)
          /\ position' = FZero]_vars

\* a run with commission and slippage that sold once on a signal and once
\* by the forced liquidation
C19_Witness ==
  /\ pc = "done" /\ Len(trades) = 4 /\ signal # 0 - 1
  /\ trades[2].type = "sell" /\ trades[4].type = "sell"
  /\ commission_pct # FZero /\ slippage_pct # FZero
  /\ trades[2].profit_loss # FZero /\ trades[4].profit_loss # FZero

\* ---- C14: constructing either strategy variant with an invalid parameter
\* domain fails at once with an error and yields no strategy object:
\* MovingAverageStrategy with fast_period >= slow_period, and
\* MeanReversionStrategy with lookback_period <= 0, rsi_period <= 0 or
\* oversold_threshold >= overbought_threshold.
C14_InvalidDomain ==
  IF ctor_args.kind = "MovingAverageStrategy"
  THEN ctor_args.fast_period >= ctor_args.slow_period
  ELSE \/ ctor_args.lookback_period <= 0
       \/ ctor_args.rsi_period <= 0
       \/ ctor_args.oversold_threshold >= ctor_args.overbought_threshold

C14_InvalidConstructionFails ==
  (spc \in {"ready", "raised", "analyzed"} /\ C14_InvalidDomain) =>
     (spc = "raised" /\ strategy = None)

\* ---- C15: for both strategy variants, analyze called with a history
\* shorter than get_required_candles_count() (slow_period + 30 for the
\* moving-average crossover, max(lookback_period, rsi_period) + 10 for mean
\* reversion) returns Hold (0) with no metadata, and a history of exactly
\* the required length is evaluated: the call returns the signal of the
\* indicators at the last bar.
C15_Required ==
  IF strategy.kind = "MovingAverageStrategy" THEN strategy.slow_period + 30
  ELSE (IF strategy.lookback_period >= strategy.rsi_period
        THEN strategy.lookback_period ELSE strategy.rsi_period) + 10

C15_ShortHistoryHolds ==
  spc = "analyzed" =>
     /\ RequiredCount(strategy) = C15_Required
     /\ Len(ticks) < C15_Required => analysis = [signal |-> 0, metadata |-> None]
     /\ Len(ticks) = C15_Required =>
          /\ analysis.signal =
               (IF strategy.kind = "MovingAverageStrategy"
                THEN MASignal(strategy, ticks, Len(ticks))
                ELSE MRSignal(strategy, ticks, Len(ticks)))
          /\ (analysis.metadata # None <=> analysis.signal # 0)

\* a history one candle short, on whose last bar the indicators give a
\* signal, was answered with Hold
C15_Witness ==
  /\ spc = "analyzed" /\ Len(ticks) = C15_Required - 1
  /\ analysis.signal = 0
  /\ (IF strategy.kind = "MovingAverageStrategy"
      THEN MASignal(strategy, ticks, Len(ticks)) # 0
      ELSE MRSignal(strategy, ticks, Len(ticks)) # 0)

\* a history of exactly the required length was answered with a signal and
\* its metadata
C15_ExactLengthEvaluated ==
  /\ spc = "analyzed" /\ Len(ticks) = C15_Required
  /\ analysis.signal # 0 /\ analysis.metadata # None

\* ---- C20: for MovingAverageStrategy with signal_threshold >= 0 and a
\* history of sufficient length, analyze returns Buy iff fastMA(t) >
\* slowMA(t) and fastMA(t-1) <= slowMA(t-1) and (signal_threshold = 0 or
\* maDiffPct(t) > signal_threshold) and RSI(t) < overbought_level; Sell iff
\* fastMA(t) < slowMA(t) and fastMA(t-1) >= slowMA(t-1) and
\* (signal_threshold = 0 or maDiffPct(t) < -signal_threshold) and RSI(t) >
\* oversold_level; and Hold otherwise, t being the last bar of the history;
\* Buy and Sell are never both satisfied.  Averages are compared exactly,
\* as sums cross-multiplied by the window lengths.
C20_FastSum(j) == SumRange(ticks, j - strategy.fast_period + 1, j)
C20_SlowSum(j) == SumRange(ticks, j - strategy.slow_period + 1, j)

\* sign of fastMA(j) - slowMA(j)
C20_Diff(j) == C20_FastSum(j) * strategy.slow_period - C20_SlowSum(j) * strategy.fast_period

\* maDiffPct(t) > th, for slowMA(t) > 0
C20_DiffPctAbove(j, th) == 100 * C20_Diff(j) > th * C20_SlowSum(j) * strategy.fast_period

\* maDiffPct(t) < -th, for slowMA(t) > 0
C20_DiffPctBelow(j, th) == 100 * C20_Diff(j) < (0 - th) * C20_SlowSum(j) * strategy.fast_period

C20_Buy ==
  LET t == Len(ticks) IN
  /\ C20_Diff(t) > 0 /\ C20_Diff(t - 1) <= 0
  /\ (strategy.signal_threshold = 0 \/ C20_DiffPctAbove(t, strategy.signal_threshold))
  /\ RLt(Rsi(ticks, t, 14), RInt(strategy.overbought_level))

C20_Sell ==
  LET t == Len(ticks) IN
  /\ C20_Diff(t) < 0 /\ C20_Diff(t - 1) >= 0
  /\ (strategy.signal_threshold = 0 \/ C20_DiffPctBelow(t, strategy.signal_threshold))
  /\ RGt(Rsi(ticks, t, 14), RInt(strategy.oversold_level))

C20_CrossoverSignal ==
  (/\ spc = "analyzed" /\ strategy.kind = "MovingAverageStrategy"
   /\ strategy.signal_threshold >= 0
   /\ Len(ticks) >= strategy.slow_period + 30) =>
     /\ (analysis.signal = 1 <=> C20_Buy)
     /\ (analysis.signal = 0 - 1 <=> C20_Sell)
     /\ (analysis.signal = 0 <=> (~C20_Buy /\ ~C20_Sell))
     /\ ~(C20_Buy /\ C20_Sell)

\* a Buy returned on a crossover that starts from equal averages on the
\* previous bar and passes a non-zero threshold
C20_Witness ==
  /\ spc = "analyzed" /\ strategy.kind = "MovingAverageStrategy"
  /\ Len(ticks) >= strategy.slow_period + 30
  /\ analysis.signal = 1
  /\ C20_Diff(Len(ticks) - 1) = 0
  /\ strategy.signal_threshold > 0

\* ---- C13 (scenario A): Backtest with MovingAverageStrategy(fast_period=3,
\* slow_period=5), commission_pct = 0, slippage_pct = 0 and
\* initial_capital = 10000 on 100 candles whose closes rise linearly from
\* 100 to 110 yields a ledger of exactly one Buy followed by one forced
\* closing Sell at the last price, and total_return 10.0.  (The statement
\* as claimed.)
C13_ScenarioA ==
  /\ strategy = ScenarioStrategy /\ ticks = LinearRise(100)
  /\ commission_pct = FZero /\ slippage_pct = FZero
  /\ initial_capital = ScenarioCapital

C13_OneBuyOneForcedSell ==
  (pc = "done" /\ C13_ScenarioA) =>
     /\ Len(trades) = 2
     /\ trades[1].type = "buy" /\ trades[2].type = "sell"
     /\ trades[2].price = Last(candles)
     /\ result.total_return = FInt(10)

\* C13 as the code has it: in scenario A no trade is made.  The fast
\* average is above the slow one on every bar where both exist, so it never
\* crosses it, and the RSI is 100; every one of the 65 evaluated bars is a
\* Hold, the ledger is empty, final_equity is initial_capital and
\* total_return is 0.0.
C13_NoCrossoverNoTrade ==
  (pc = "done" /\ C13_ScenarioA) =>
     /\ trades = <<>>
     /\ result.trades_count = 0
     /\ Len(equity_values) = 65
     /\ \A k \in 1..Len(equity_values) : equity_values[k] = initial_capital
     /\ result.final_equity = initial_capital
     /\ result.total_return = FZero
     /\ result.metrics.total_return = FZero

\* scenario A has run to its end, the strategy consulted on each of the 65 bars
C13_Witness ==
  /\ pc = "done" /\ C13_ScenarioA
  /\ analyze_calls = 65 /\ Len(candles) = 100 /\ required = 35
  /\ analysis = [signal |-> 0, metadata |-> None]

\* ---- C21: for every equity curve, drawdown_periods_count equals the
\* number of maximal contiguous runs of points whose equity is strictly
\* below the running maximum; a run still in progress at the last point is
\* counted as one period that ends at the last point; and the count, the
\* maximum and the average duration are 0 when no point is in drawdown.
C21_Below(k) == \E j \in 1..(k - 1) : FGt(pm_curve[j].equity, pm_curve[k].equity)

C21_RunStarts == {k \in 1..Len(pm_curve) : C21_Below(k) /\ ~C21_Below(k - 1)}

C21_DrawdownPeriodsCount ==
  (mpc = "returned" /\ pm_curve # <<>>) =>
     /\ pm_metrics.drawdown_periods_count = Cardinality(C21_RunStarts)
     /\ C21_Below(Len(pm_curve)) =>
          LET start == CHOOSE k \in C21_RunStarts : \A j \in C21_RunStarts : j <= k
          IN /\ Last(DrawdownPeriods(pm_curve)).end = Len(pm_curve) - 1
             /\ Last(DrawdownPeriods(pm_curve)).start = start - 1
             /\ pm_metrics.max_drawdown_duration >= Last(pm_curve).date - pm_curve[start].date
     /\ C21_RunStarts = {} =>
          /\ pm_metrics.drawdown_periods_count = 0
          /\ pm_metrics.max_drawdown_duration = 0
          /\ pm_metrics.avg_drawdown_duration.n = 0

\* a curve with one drawdown that recovered and one still open at the end
C21_Witness ==
  /\ mpc = "returned" /\ Len(pm_curve) = 4
  /\ pm_metrics.drawdown_periods_count = 2
  /\ C21_Below(2) /\ ~C21_Below(3) /\ C21_Below(4)

\* ---- C22: for every non-empty equity curve with positive equity values,
\* max_drawdown >= 0; and for a strictly increasing equity curve
\* max_drawdown = 0 and calmar_ratio = 0, by the guard and not by a
\* division by zero.
C22_StrictlyIncreasing ==
  \A k \in 2..Len(pm_curve) : FGt(pm_curve[k].equity, pm_curve[k - 1].equity)

C22_MaxDrawdownNonNegative ==
  (mpc = "returned" /\ pm_curve # <<>>) =>
     /\ ~FLt(pm_metrics.max_drawdown, FZero)
     /\ (pm_metrics.max_drawdown = FZero <=> C21_RunStarts = {})
     /\ C22_StrictlyIncreasing =>
          /\ pm_metrics.max_drawdown = FZero
          /\ pm_metrics.calmar_ratio = FZero

\* a strictly increasing curve of three points with a non-zero annualized return
C22_Witness ==
  /\ mpc = "returned" /\ Len(pm_curve) = 3 /\ C22_StrictlyIncreasing
  /\ pm_metrics.annualized_return # FZero
  /\ pm_metrics.calmar_ratio = FZero

\* ---- C23: for a ledger of alternating Buy and Sell entries,
\* avg_holding_period, max_holding_period and min_holding_period are the
\* mean, maximum and minimum of holding_period over the closing (Sell)
\* trades only; Buy entries contribute no value.
C23_HoldingPeriodsOfSells(ledger) ==
  LET RECURSIVE Sel(_)
      Sel(l) == IF l = <<>> THEN <<>>
                ELSE LET init == Sel(SubSeq(l, 1, Len(l) - 1)) IN
                     IF "holding_period" \in DOMAIN Last(l)
                     THEN Append(init, Last(l).holding_period) ELSE init
  IN Sel(ledger)

C23_HoldingPeriodsOverSells ==
  (mpc = "returned" /\ pm_curve # <<>> /\ pm_trades # <<>>) =>
     LET hp == C23_HoldingPeriodsOfSells(pm_trades) IN
     /\ pm_metrics.avg_holding_period.n * Len(hp) = SumOf(hp) * pm_metrics.avg_holding_period.d
     /\ pm_metrics.max_holding_period = MaxOf(hp)
     /\ pm_metrics.min_holding_period = MinOf(hp)

\* ---- C24: for a ledger of alternating Buy and Sell entries,
\* max_consecutive_wins is the length of the longest run of consecutive
\* closing trades with profit_loss > 0 and max_consecutive_losses that of
\* the longest run of consecutive closing trades with profit_loss <= 0; so
\* k winning round trips in a row give max_consecutive_wins = k.
C24_Sells ==
  LET RECURSIVE Sel(_)
      Sel(l) == IF l = <<>> THEN <<>>
                ELSE LET init == Sel(SubSeq(l, 1, Len(l) - 1)) IN
                     IF Last(l).type = "sell" THEN Append(init, Last(l)) ELSE init
  IN Sel(pm_trades)

C24_LongestRun(win) ==
  LET s    == C24_Sells
      spans == {<<a, b>> \in (1..Len(s)) \X (1..Len(s)) :
                 a <= b /\ \A k \in a..b : FGt(s[k].profit_loss, FZero) = win}
  IN IF spans = {} THEN 0
     ELSE LET r == CHOOSE r \in spans : \A q \in spans : q[2] - q[1] <= r[2] - r[1]
          IN r[2] - r[1] + 1

C24_ConsecutiveStreaks ==
  (mpc = "returned" /\ pm_curve # <<>> /\ pm_trades # <<>>) =>
     /\ pm_metrics.max_consecutive_wins = C24_LongestRun(TRUE)
     /\ pm_metrics.max_consecutive_losses = C24_LongestRun(FALSE)

\* ---- C25: optimize_strategy called with an empty parameter domain (an
\* empty mapping, or a mapping in which some parameter has no candidate
\* value) returns an explicit error result and runs no simulation
C25_EmptyDomain ==
  \/ param_ranges = <<>>
  \/ \E j \in 1..Len(param_ranges) : param_ranges[j].values = <<>>

C25_EmptyDomainIsError ==
  (opc = "returned" /\ C25_EmptyDomain) =>
    /\ "error" \in DOMAIN opt_result
    /\ runs = 0

\* ---- C26: after a completed run the reported final_equity equals the
\* engine's cash balance at the end of the run (the position being closed),
\* for every commission and slippage setting, including runs that end with
\* a forced liquidation and runs in which a trade executes on the last bar
C26_FinalEquityIsCash ==
  pc = "done" => result.final_equity = cash

\* ---- C27: after optimize_strategy returns, the engine's own
\* MovingAverageStrategy still satisfies fast_period < slow_period, for
\* every template strategy and every parameter grid, including a grid that
\* lists only some of the parameters
C27_TemplateStaysValid ==
  opc = "returned" => template.fast_period < template.slow_period

\* ---- C28: a call to run() that returns the not-enough-candles error
\* leaves the stored trade ledger and equity curve exactly as they were
\* before the call (after an earlier successful run they still hold that
\* run's data); a call that passes the length check clears the ledger
\* before the first bar is evaluated, so ledgers never accumulate across runs
C28_RejectStep == pc = "start" /\ pc' = "error"
C28_AcceptStep == pc = "start" /\ pc' = "loop"

C28_LedgerAcrossRuns ==
  /\ [][/\ C28_RejectStep => (trades' = trades /\ equity_curve' = equity_curve)
        /\ C28_AcceptStep => trades' = <<>>]_vars
  /\ [](pc = "done" =>
          /\ Len(trades) <= (Len(candles) - required) + 1
          /\ \A j \in 1..Len(trades) : trades[j].time \in required..(Len(candles) - 1))

\* a rejected second call on an engine that holds the ledger and the curve
\* of an earlier successful run
C28_Witness ==
  /\ pc = "error" /\ run_calls = 2
  /\ trades # <<>> /\ equity_curve # <<>>
  /\ equity_curve[1].equity # <<>>

\* ---- C29: after any sequence of initialize_portfolio, reset_daily_tracking
\* and update_portfolio_value calls, daily_losses equals
\* max(0, daily_starting_value - last reported portfolio value); once the
\* value has recovered to or above the day's starting value,
\* can_open_position no longer refuses on the daily loss limit
C29_DailyLossesFollowValue ==
  (rpc = "ready" /\ last_value # None) =>
     /\ rm.daily_losses = FMax(FZero, FSub(rm.daily_starting_value, last_value))
     /\ (can_open # None /\ "reason" \in DOMAIN can_open
         /\ can_open.reason = "Daily loss limit exceeded")
          => FLt(last_value, rm.daily_starting_value)

\* ---- C30: create_strategy returns None for an unregistered strategy id or
\* when construction fails, and for a registered id with valid strategy
\* parameters and a non-empty valid risk_params mapping it returns a
\* strategy whose risk manager carries those risk parameters
C30_ValidCall ==
  /\ strategy_id \in DOMAIN Registry
  /\ ~ClassRaises(Registry[strategy_id], kwargs)
  /\ Truthy(risk_params)
  /\ ~RiskManagerRaises(risk_params)

C30_CreateStrategy ==
  fpc = "returned" =>
    /\ strategy_id \notin DOMAIN Registry => created = None
    /\ (strategy_id \in DOMAIN Registry /\ ClassRaises(Registry[strategy_id], kwargs))
         => created = None
    /\ C30_ValidCall =>
         /\ created # None
         /\ created.risk_manager = WithDefaults(RiskDefaults, risk_params)

====
